---- MODULE Spec2Model ----
(***************************************************************************)
(* Verification model of the Guidance conflict detection and priority     *)
(* merge engine (bg3moddinglib/_dialog_differ.py, _mod_tools.py).          *)
(*                                                                         *)
(* The module holds several specifications over one set of variables:     *)
(*   SpecSetDiff    dialog_differ.get_modified_dialog_nodes                *)
(*   SpecOrderDiff  dialog_differ.get_modified_dialog_root_nodes           *)
(*   SpecDetect     mod_manager.reload_mods / detect_conflicts             *)
(*   SpecMerge      mod_manager.merge_conflicting_dialogs (dialog part)    *)
(*   SpecResolve    mod_manager.resolve_conflicts (file level pipeline)    *)
(***************************************************************************)
EXTENDS Integers, Sequences, FiniteSets, TLC

VARIABLES
    pc,               \* position of the modelled call
    original_dialog,  \* differ: the baseline dialog (vanilla game)
    modded_dialog,    \* differ: the candidate dialog
    diff_result,      \* differ: the dict returned by the differ
    modsettings,      \* the mod UUIDs listed in modsettings.lsx, in file order
    paks,             \* the .pak files of the Mods directory, in os.listdir order
    mods,             \* mod_manager.__mods: the mod_info objects, in creation order
    mods_index,       \* mod_manager.__mods_index: mod UUID -> position in mods
    conflicts,        \* mod_manager.__conflicts_imm
    mod_priority_order,    \* resolve_conflicts: the mods (positions in mods) by priority
    cur_dialog,            \* merge_conflicting_dialogs: dialog_uuid
    result_dialog,         \* merge_conflicting_dialogs: <<>> (None) or <<dialog>>
    dialog_nodes_diff,     \* merge_conflicting_dialogs: the claimed node keys
    root_nodes_diff,       \* merge_conflicting_dialogs: the claimed root keys
    result_timeline,       \* merge_conflicting_dialogs: <<>> (None) or <<source>>
    conflicting_files,     \* mod_manager.__conflicting_files: mod UUID -> paths
    applied_root_entries,  \* the root-order entries the report lists as applied
    settings,              \* resolve_conflicts: settings and method
    dialog_queue,          \* resolve_conflicts: the chosen dialogs still to merge
    build_files,           \* bg3_assets.files: the files added to the build
    dialog_bank,           \* bg3_assets: the aggregate dialog bank
    timeline_bank,         \* bg3_assets: the aggregate timeline bank
    output_files,          \* the files copied into the output directory
    report,                \* mod_manager.__report: the lines of the run
    worklog,               \* the worklog files written, [suffix, lines]
    run_result,            \* resolve_conflicts: <<>>, or what it returned or raised
    job_result,            \* Runner.__results: <<>>, or the dict the UI polls
    source_timeline,       \* merge_timeline_nodes: the timeline of the mod
    destination_timeline,  \* merge_timeline_nodes: the timeline being built
    source_timeline_diff,  \* merge_timeline_nodes: the diff of the mod, in dict order
    already_changed_phases, \* merge_timeline_nodes: the phases claimed by earlier mods
    diff_fault,            \* <<>>, or <<f>>: an entry f that the diff of a mod carries
    timeline_loop,         \* merge_conflicting_dialogs: the timelines of the mods, loop position
    ui,                    \* MainWindow: the fields and widgets the UI thread works on
    runner,                \* Runner: the jobs queue, the results queue, the worker thread
    PAK_KEYS,              \* _tool.PAK_KEYS: pak path -> key of its cache entry
    PAK_CACHE,             \* _tool.PAK_CACHE: key -> the files read from the package
    pak_stat,              \* the pak files on disk: path -> [exists, mtime, files, readable]
    package                \* bg3_modding_tool: what the last __get_package returned or raised

diffVars == <<original_dialog, modded_dialog, diff_result>>
scanVars == <<modsettings, paks, mods, mods_index, conflicts>>
mergeVars == <<mod_priority_order, cur_dialog, result_dialog, dialog_nodes_diff,
               root_nodes_diff, result_timeline, conflicting_files, applied_root_entries>>
resolveVars == <<settings, dialog_queue, output_files>>
buildVars == <<build_files, dialog_bank, timeline_bank>>
runVars == <<report, worklog, run_result, job_result>>
tlVars == <<source_timeline, destination_timeline, source_timeline_diff,
           already_changed_phases>>
hostVars == <<ui, runner>>
pakVars == <<PAK_KEYS, PAK_CACHE, pak_stat, package>>

(***************************************************************************)
(* Bounds                                                                  *)
(***************************************************************************)
MaxKeys == 2          \* node keys of a dialog in the set diff
NumEffects == 2       \* effect components of a timeline and entries of its diff
MaxRoots == 5         \* root keys of a dialog in the order diff
NumMods == 3          \* mod UUIDs; a mod UUID is modelled by its rank in string order

(***************************************************************************)
(* Generic helpers                                                         *)
(***************************************************************************)
Range(s) == {s[i] : i \in DOMAIN s}

NoDup(s) == \A i, j \in DOMAIN s : s[i] = s[j] => i = j

\* all sequences without repetition over the set S, of every length
RECURSIVE SeqsNoDup(_)
SeqsNoDup(S) ==
    IF S = {} THEN {<<>>}
    ELSE {<<>>} \cup UNION {{<<x>> \o t : t \in SeqsNoDup(S \ {x})} : x \in S}

\* all orders in which a set can be iterated
Perms(S) == {s \in SeqsNoDup(S) : Len(s) = Cardinality(S)}

\* str.join
RECURSIVE JoinStr(_, _)
JoinStr(sep, s) ==
    IF s = <<>> THEN ""
    ELSE IF Len(s) = 1 THEN s[1]
    ELSE s[1] \o sep \o JoinStr(sep, Tail(s))

\* list.sort on a list of small naturals (ranks of strings)
RECURSIVE SortNat(_)
SortNat(s) ==
    IF s = <<>> THEN <<>>
    ELSE LET m == CHOOSE x \in Range(s) : \A y \in Range(s) : x <= y
             i == CHOOSE k \in DOMAIN s : s[k] = m
         IN <<m>> \o SortNat(SubSeq(s, 1, i - 1) \o SubSeq(s, i + 1, Len(s)))

\* index of the first occurrence of x in s, 0-based as in Python; -1 if absent
IndexOf(s, x) ==
    IF x \in Range(s) THEN (CHOOSE i \in DOMAIN s : s[i] = x /\ \A j \in 1..(i - 1) : s[j] # x) - 1
    ELSE -1

KeyNames == <<"R1", "R2", "R3", "R4", "R5", "R6">>

(***************************************************************************)
(* dialog_differ: constants                                                *)
(***************************************************************************)
ADDED == "added"
DELETED == "deleted"
MODIFIED == "modified"

(***************************************************************************)
(* Dialog nodes as the differ sees them.  A node is a record               *)
(*   attributes  its <attribute> elements in document order, each with     *)
(*               either a value or a handle and version; one has id UUID   *)
(*   children    the values of its child references, in order              *)
(*   checkflags, setflags   flag groups, each [type, flags]                *)
(*   texts       TaggedText groups, each [tags, tag_texts] given as ranks  *)
(***************************************************************************)
TagName == <<"tagA", "tagB">>
HandleName == <<"h1", "h2">>

AttrStr(attr) ==
    IF "value" \in DOMAIN attr
    THEN attr.id \o "=" \o attr.value
    ELSE attr.id \o "=" \o attr.handle \o ":" \o ToString(attr.version)

attrs_to_str(node) ==
    JoinStr("|", [i \in DOMAIN node.attributes |-> AttrStr(node.attributes[i])])

get_dialog_children(d) == JoinStr("|", d.children)

FlagStr(action, flag_type, flag) ==
    action \o " " \o flag.UUID \o ":" \o flag_type \o ":" \o flag.paramval \o "=" \o flag.value

RECURSIVE FlagGroupsStr(_, _)
FlagGroupsStr(action, groups) ==
    IF groups = <<>> THEN <<>>
    ELSE [i \in DOMAIN groups[1].flags |-> FlagStr(action, groups[1].type, groups[1].flags[i])]
         \o FlagGroupsStr(action, Tail(groups))

get_dialog_flags(d) ==
    JoinStr("|", FlagGroupsStr("check", d.checkflags) \o FlagGroupsStr("set", d.setflags))

TaggedTextStr(tt) ==
    LET tags == SortNat(tt.tags)
        tag_texts == SortNat(tt.tag_texts)
    IN JoinStr("", [i \in DOMAIN tags |-> "[" \o TagName[tags[i]] \o "]"])
       \o JoinStr(",", [i \in DOMAIN tag_texts |-> HandleName[tag_texts[i]]])

get_dialog_texts(d) ==
    JoinStr("|", [i \in DOMAIN d.texts |-> TaggedTextStr(d.texts[i])])

\* get_required_bg3_attribute(node, 'UUID')
NodeUUID(node) ==
    node.attributes[CHOOSE i \in DOMAIN node.attributes : node.attributes[i].id = "UUID"].value

\* mutant: the tagged texts are left out of the comparison
compare_dialog_nodes_no_texts(a, b) ==
    /\ attrs_to_str(a) = attrs_to_str(b)
    /\ get_dialog_children(a) = get_dialog_children(b)
    /\ get_dialog_flags(a) = get_dialog_flags(b)

compare_dialog_nodes(a, b) ==
    /\ attrs_to_str(a) = attrs_to_str(b)
    /\ get_dialog_children(a) = get_dialog_children(b)
    /\ get_dialog_flags(a) = get_dialog_flags(b)
    /\ get_dialog_texts(a) = get_dialog_texts(b)

\* { get_required_bg3_attribute(node, 'UUID') : node for node in nodes }
\* (a later node with the same UUID replaces an earlier one)
NodesByUUID(nodes) ==
    [u \in {NodeUUID(nodes[i]) : i \in DOMAIN nodes} |->
        nodes[CHOOSE i \in DOMAIN nodes :
                 NodeUUID(nodes[i]) = u /\ \A j \in DOMAIN nodes : NodeUUID(nodes[j]) = u => j <= i]]

get_modified_dialog_nodes(original, modded) ==
    LET original_nodes == NodesByUUID(original.nodes)
        modded_nodes == NodesByUUID(modded.nodes)
        original_nodes_uuids == DOMAIN original_nodes
        modded_nodes_uuids == DOMAIN modded_nodes
        common_nodes_uuids == original_nodes_uuids \cap modded_nodes_uuids
        only_in_modded_uuids == modded_nodes_uuids \ original_nodes_uuids
        only_in_original_uuids == original_nodes_uuids \ modded_nodes_uuids
        changed == {u \in common_nodes_uuids :
                       ~compare_dialog_nodes(original_nodes[u], modded_nodes[u])}
    IN [u \in only_in_original_uuids \cup only_in_modded_uuids \cup changed |->
           IF u \in only_in_original_uuids THEN DELETED
           ELSE IF u \in only_in_modded_uuids THEN ADDED
           ELSE MODIFIED]

(***************************************************************************)
(* dialog_differ.get_modified_dialog_root_nodes                            *)
(***************************************************************************)
\* dialog_object.get_root_nodes_order: root key -> 0-based position
get_root_nodes_order(d) == [u \in Range(d.roots) |-> IndexOf(d.roots, u)]

\* mutant: the immediate successor, keys new in the candidate not skipped
WalkNextAdjacent(roots_list, mod_idx, only_in_modded) ==
    IF mod_idx >= Len(roots_list) THEN "" ELSE roots_list[mod_idx + 1]

\* the while loop of lines 99-105: the last key looked at, '' if none
RECURSIVE WalkNext(_, _, _)
WalkNext(roots_list, mod_idx, only_in_modded) ==
    IF mod_idx >= Len(roots_list) THEN ""
    ELSE LET u == roots_list[mod_idx + 1]
         IN IF u \notin only_in_modded THEN u
            ELSE IF mod_idx + 1 >= Len(roots_list) THEN u
            ELSE WalkNext(roots_list, mod_idx + 1, only_in_modded)

\* mutant: a key that is first in the candidate only goes to the anchor walk
RootModifiedByWalk(original, modded, only_in_modded, u) ==
    LET original_roots == get_root_nodes_order(original)
        modded_roots == get_root_nodes_order(modded)
        original_roots_len == Cardinality(DOMAIN original_roots)
        modded_roots_len == Cardinality(DOMAIN modded_roots)
        ori_idx == original_roots[u]
        mod_idx == modded_roots[u]
    IN IF ori_idx = 0 /\ mod_idx = 0 THEN FALSE
       ELSE IF ori_idx = original_roots_len - 1 /\ mod_idx = modded_roots_len - 1 THEN FALSE
       ELSE IF ori_idx = 0 /\ mod_idx # 0 THEN TRUE
       ELSE IF ori_idx = original_roots_len - 1 /\ mod_idx # modded_roots_len - 1 THEN TRUE
       ELSE IF ori_idx # original_roots_len - 1 /\ mod_idx = modded_roots_len - 1 THEN TRUE
       ELSE original.roots[ori_idx + 2] # WalkNext(modded.roots, mod_idx + 1, only_in_modded)

RootModified(original, modded, only_in_modded, u) ==
    LET original_roots == get_root_nodes_order(original)
        modded_roots == get_root_nodes_order(modded)
        original_roots_len == Cardinality(DOMAIN original_roots)
        modded_roots_len == Cardinality(DOMAIN modded_roots)
        ori_idx == original_roots[u]
        mod_idx == modded_roots[u]
    IN IF ori_idx = 0 /\ mod_idx = 0 THEN FALSE
       ELSE IF ori_idx = original_roots_len - 1 /\ mod_idx = modded_roots_len - 1 THEN FALSE
       ELSE IF ori_idx = 0 /\ mod_idx # 0 THEN TRUE
       ELSE IF ori_idx = original_roots_len - 1 /\ mod_idx # modded_roots_len - 1 THEN TRUE
       ELSE IF ori_idx # 0 /\ mod_idx = 0 THEN TRUE
       ELSE IF ori_idx # original_roots_len - 1 /\ mod_idx = modded_roots_len - 1 THEN TRUE
       ELSE original.roots[ori_idx + 2] # WalkNext(modded.roots, mod_idx + 1, only_in_modded)

get_modified_dialog_root_nodes(original, modded) ==
    LET original_roots_uuids == Range(original.roots)
        modded_roots_uuids == Range(modded.roots)
        common_nodes_uuids == original_roots_uuids \cap modded_roots_uuids
        only_in_modded_uuids == modded_roots_uuids \ original_roots_uuids
        only_in_original_uuids == original_roots_uuids \ modded_roots_uuids
        moved == {u \in common_nodes_uuids :
                     RootModified(original, modded, only_in_modded_uuids, u)}
    IN [u \in only_in_original_uuids \cup only_in_modded_uuids \cup moved |->
           IF u \in only_in_original_uuids THEN DELETED
           ELSE IF u \in only_in_modded_uuids THEN ADDED
           ELSE MODIFIED]

(***************************************************************************)
(* Inputs of the set diff: every key is absent from a dialog or carries    *)
(* one of the node variants below.  The variants differ from the vanilla   *)
(* node in any subset of the four compared dimensions.                     *)
(***************************************************************************)
NodeKeys == {KeyNames[i] : i \in 1..MaxKeys}

AttrVariants(u) ==
    << <<[id |-> "UUID", value |-> u], [id |-> "ShowOnce", value |-> "True"],
         [id |-> "Text", handle |-> "h1", version |-> 1]>>,
       <<[id |-> "ShowOnce", value |-> "True"], [id |-> "UUID", value |-> u],
         [id |-> "Text", handle |-> "h1", version |-> 1]>>,
       <<[id |-> "UUID", value |-> u], [id |-> "ShowOnce", value |-> "True"],
         [id |-> "Text", handle |-> "h1", version |-> 2]>> >>

ChildrenVariants == << <<"c1", "c2">>, <<"c2", "c1">> >>

TheFlag == [UUID |-> "f1", value |-> "True", paramval |-> "None"]
FlagVariants ==
    << [checkflags |-> <<[type |-> "Global", flags |-> <<TheFlag>>]>>, setflags |-> <<>>],
       [checkflags |-> <<>>, setflags |-> <<[type |-> "Global", flags |-> <<TheFlag>>]>>] >>

TextVariants ==
    << <<[tags |-> <<1, 2>>, tag_texts |-> <<1>>]>>,
       <<[tags |-> <<2, 1>>, tag_texts |-> <<1>>]>>,
       <<[tags |-> <<1, 2>>, tag_texts |-> <<2>>]>> >>

MkNode(attrs, children, flags, texts) ==
    [attributes |-> attrs, children |-> children,
     checkflags |-> flags.checkflags, setflags |-> flags.setflags, texts |-> texts]

\* the variant v = <<attributes, children, flags, texts>> of the node u;
\* <<1, 1, 1, 1>> is the node of the vanilla game
NodeVariant(u, v) ==
    MkNode(AttrVariants(u)[v[1]], ChildrenVariants[v[2]], FlagVariants[v[3]], TextVariants[v[4]])

VariantIds ==
    (DOMAIN AttrVariants("")) \X (DOMAIN ChildrenVariants) \X (DOMAIN FlagVariants)
        \X (DOMAIN TextVariants)

VanillaNode(u) == NodeVariant(u, <<1, 1, 1, 1>>)

\* the node list of a dialog given, per key, as <<>> (absent) or <<node>>
RECURSIVE NodeList(_, _)
NodeList(choice, i) ==
    IF i > Len(KeyNames) THEN <<>>
    ELSE IF KeyNames[i] \in DOMAIN choice
         THEN choice[KeyNames[i]] \o NodeList(choice, i + 1)
         ELSE NodeList(choice, i + 1)

NoDialog == [nodes |-> <<>>, roots |-> <<>>]
NoDiff == <<>>

(***************************************************************************)
(* mod_manager: scanning the installed mods and detecting conflicts.       *)
(* A mod_info is a record [mod_uuid, has_content, content_index, pak];     *)
(* has_content = FALSE stands for content = None, pak = 0 for no pak.      *)
(* Python dicts are kept with their insertion order: [keys, val].          *)
(***************************************************************************)
ModUUIDs == 1..NumMods
DialogUUIDs == {"d1", "d2"}

EmptyDict == [keys |-> <<>>, val |-> <<>>]

\* d[k].append(v) if k in d else d[k] = [v]
DictAppend(d, k, v) ==
    IF k \in Range(d.keys)
    THEN [d EXCEPT !.val[k] = Append(@, v)]
    ELSE [keys |-> Append(d.keys, k), val |-> (k :> <<v>>) @@ d.val]

new_mod_info(mod_uuid) ==
    [mod_uuid |-> mod_uuid, has_content |-> FALSE, content_index |-> <<>>, pak |-> 0]

\* __load_modsettings: one mod_info per ModuleShortDesc, appended and indexed
RECURSIVE load_modsettings(_, _, _)
load_modsettings(entries, ms, idx) ==
    IF entries = <<>> THEN [mods |-> ms, index |-> idx]
    ELSE load_modsettings(Tail(entries),
                          Append(ms, new_mod_info(entries[1])),
                          [u \in DOMAIN idx \cup {entries[1]} |->
                              IF u = entries[1] THEN Len(ms) + 1 ELSE idx[u]])

\* __add_mod: the mod of a pak updates the indexed mod_info or is appended
add_mod(st, pak_list, p) ==
    LET mod_uuid == pak_list[p].mod_uuid
        content == pak_list[p].content_index
    IN IF mod_uuid \in DOMAIN st.index
       THEN [st EXCEPT !.mods[st.index[mod_uuid]] =
                [@ EXCEPT !.has_content = TRUE, !.content_index = content, !.pak = p]]
       ELSE [mods |-> Append(st.mods, [mod_uuid |-> mod_uuid, has_content |-> TRUE,
                                       content_index |-> content, pak |-> p]),
             index |-> [u \in DOMAIN st.index \cup {mod_uuid} |->
                           IF u = mod_uuid THEN Len(st.mods) + 1 ELSE st.index[u]]]

\* a pak file that os.unlink removed from the Mods directory; the positions of
\* the other paks, which mod_info.pak refers to, stay as they are
DeletedPak == [mod_uuid |-> 0, content_index |-> <<>>]

IsDeleted(pak) == pak.mod_uuid = 0

RECURSIVE add_all_mods(_, _, _)
add_all_mods(st, pak_list, p) ==
    IF p > Len(pak_list) THEN st
    ELSE IF IsDeleted(pak_list[p]) THEN add_all_mods(st, pak_list, p + 1)
    ELSE add_all_mods(add_mod(st, pak_list, p), pak_list, p + 1)

reload_mods(entries, pak_list) ==
    add_all_mods(load_modsettings(entries, <<>>, <<>>), pak_list, 1)

get_mod_info(idx, mod_uuid) == idx[mod_uuid]

\* detect_conflicts, lines 252-261: content UUID -> contributing mod UUIDs
RECURSIVE CollectDialogs(_, _, _)
CollectDialogs(d, content_index, mod_uuid) ==
    IF content_index = <<>> THEN d
    ELSE CollectDialogs(DictAppend(d, content_index[1], mod_uuid), Tail(content_index), mod_uuid)

RECURSIVE CollectContributors(_, _, _)
CollectContributors(d, ms, i) ==
    IF i > Len(ms) THEN d
    ELSE IF ~ms[i].has_content THEN CollectContributors(d, ms, i + 1)
    ELSE CollectContributors(CollectDialogs(d, ms[i].content_index, ms[i].mod_uuid), ms, i + 1)

\* lines 262-267: entries with one contributor are deleted
DropUncontested(d) ==
    LET kept == SelectSeq(d.keys, LAMBDA k : Len(d.val[k]) # 1)
    IN [keys |-> kept, val |-> [k \in Range(kept) |-> d.val[k]]]

\* mutant: the contributor list is not sorted
ConflictKeyUnsorted(mod_uuids) == mod_uuids

\* lines 271-272: mod_uuids.sort(); conflict_key = tuple(mod_uuids)
ConflictKey(mod_uuids) == SortNat(mod_uuids)

\* lines 269-276
RECURSIVE GroupConflicts(_, _, _)
GroupConflicts(g, d, i) ==
    IF i > Len(d.keys) THEN g
    ELSE GroupConflicts(DictAppend(g, ConflictKey(d.val[d.keys[i]]), d.keys[i]), d, i + 1)

\* mutant: mods without content are not skipped
UnconflictedModsAnyContent(ms, mods_with_conflicts) ==
    SelectSeq([i \in DOMAIN ms |-> i], LAMBDA i : ms[i].mod_uuid \notin mods_with_conflicts)

\* lines 285-288: the mods that get a group of their own
UnconflictedMods(ms, mods_with_conflicts) ==
    SelectSeq([i \in DOMAIN ms |-> i],
              LAMBDA i : ~(~ms[i].has_content \/ ms[i].mod_uuid \in mods_with_conflicts))

detect_conflicts(ms, idx) ==
    LET contributors == DropUncontested(CollectContributors(EmptyDict, ms, 1))
        conflicts_grouped == GroupConflicts(EmptyDict, contributors, 1)
        mods_with_conflicts == UNION {Range(k) : k \in Range(conflicts_grouped.keys)}
        grouped == [g \in DOMAIN conflicts_grouped.keys |->
                       [mods |-> [j \in DOMAIN conflicts_grouped.keys[g] |->
                                     get_mod_info(idx, conflicts_grouped.keys[g][j])],
                        dialogs |-> conflicts_grouped.val[conflicts_grouped.keys[g]]]]
        single == UnconflictedMods(ms, mods_with_conflicts)
    IN grouped \o [j \in DOMAIN single |-> [mods |-> <<single[j]>>, dialogs |-> <<>>]]

(***************************************************************************)
(* File paths are sequences of tokens, the separators being tokens of      *)
(* their own, so that str.replace and str.endswith act on them as they do  *)
(* on the characters of the path.                                          *)
(***************************************************************************)
FolderNames == <<"ModA", "ModB", "ModC", "ModD", "ModE">>

IsSuffix(suffix, path) ==
    /\ Len(suffix) <= Len(path)
    /\ SubSeq(path, Len(path) - Len(suffix) + 1, Len(path)) = suffix

\* str.replace(old, new); old and new are token sequences
RECURSIVE Replace(_, _, _)
Replace(path, old, new) ==
    IF Len(path) < Len(old) THEN path
    ELSE IF SubSeq(path, 1, Len(old)) = old
         THEN new \o Replace(SubSeq(path, Len(old) + 1, Len(path)), old, new)
         ELSE <<path[1]>> \o Replace(Tail(path), old, new)

DialogFile(mod_uuid, dialog_uuid) ==
    <<"Mods", "/", FolderNames[mod_uuid], "/", "Story", "/", "DialogsBinary", "/",
      dialog_uuid, ".lsf">>

TimelineFile(mod_uuid, dialog_uuid) ==
    <<"Public", "/", FolderNames[mod_uuid], "/", "Timeline", "/", "Generated", "/",
      dialog_uuid, ".lsf">>

NoExclusions == <<>>

\* mutant: the path is recorded with the separators it came with
append_to_exclusion_list_verbatim(cf, mod_uuid, file) ==
    [u \in DOMAIN cf \cup {mod_uuid} |->
        IF u = mod_uuid
        THEN (IF u \in DOMAIN cf THEN cf[u] ELSE <<>>) \o <<file>>
        ELSE cf[u]]


\* mod_manager.append_to_exclusion_list
append_to_exclusion_list(cf, mod_uuid, file) ==
    [u \in DOMAIN cf \cup {mod_uuid} |->
        IF u = mod_uuid
        THEN (IF u \in DOMAIN cf THEN cf[u] ELSE <<>>) \o <<Replace(file, <<"/">>, <<"\\">>)>>
        ELSE cf[u]]

\* mod_manager.is_in_exclusion_list
is_in_exclusion_list(cf, mod_uuid, file) ==
    IF mod_uuid \notin DOMAIN cf THEN FALSE
    ELSE \E i \in DOMAIN cf[mod_uuid] : IsSuffix(cf[mod_uuid][i], file)

(***************************************************************************)
(* dialog_object: the operations the merge uses on a dialog                *)
(***************************************************************************)
has_dialog_node(d, u) == \E i \in DOMAIN d.nodes : NodeUUID(d.nodes[i]) = u

find_dialog_node(d, u) ==
    d.nodes[CHOOSE i \in DOMAIN d.nodes : NodeUUID(d.nodes[i]) = u]

delete_dialog_node(d, u) == [d EXCEPT !.nodes = SelectSeq(@, LAMBDA n : NodeUUID(n) # u)]

add_dialog_node(d, node) == [d EXCEPT !.nodes = Append(@, node)]

get_root_nodes(d) == d.roots

remove_root_node(d, u) == [d EXCEPT !.roots = SelectSeq(@, LAMBDA r : r # u)]

add_root_node(d, u) == [d EXCEPT !.roots = Append(@, u)]

add_root_node_before(d, next, u) ==
    LET i == IndexOf(d.roots, next) + 1
    IN IF i = 0 THEN add_root_node(d, u)
       ELSE [d EXCEPT !.roots = SubSeq(@, 1, i - 1) \o <<u>> \o SubSeq(@, i, Len(@))]

(***************************************************************************)
(* The order in which a diff dict is iterated is the order in which the    *)
(* differ filled it: the deleted keys, then the added keys, then the       *)
(* modified keys, each group in the iteration order of a Python set.       *)
(***************************************************************************)
KeysWithState(diff, state) == {u \in DOMAIN diff : diff[u] = state}

DiffOrders(diff) ==
    {d \o a \o m : d \in Perms(KeysWithState(diff, DELETED)),
                   a \in Perms(KeysWithState(diff, ADDED)),
                   m \in Perms(KeysWithState(diff, MODIFIED))}

\* the keys of a set in the order of KeyNames
RECURSIVE InKeyOrder(_, _)
InKeyOrder(S, i) ==
    IF i > Len(KeyNames) THEN <<>>
    ELSE (IF KeyNames[i] \in S THEN <<KeyNames[i]>> ELSE <<>>) \o InKeyOrder(S, i + 1)

SortedDiffOrder(diff) ==
    InKeyOrder(KeysWithState(diff, DELETED), 1) \o InKeyOrder(KeysWithState(diff, ADDED), 1)
        \o InKeyOrder(KeysWithState(diff, MODIFIED), 1)

(***************************************************************************)
(* mod_manager.merge_dialog_nodes.  st = [dialog, diff, applied]: the      *)
(* destination dialog, destination_diff and the root keys applied.         *)
(***************************************************************************)
\* line 993: node_uuid in destination_diff
NodeClaimed(destination_diff, node_uuid) == node_uuid \in DOMAIN destination_diff

\* lines 991-1008
RECURSIVE MergeNodeEntries(_, _, _, _, _)
MergeNodeEntries(st, source_dialog, source_diff, order, i) ==
    IF i > Len(order) \/ st.raised THEN st
    ELSE LET node_uuid == order[i]
             node_state == source_diff[node_uuid]
             cleared == IF has_dialog_node(st.dialog, node_uuid)
                        THEN delete_dialog_node(st.dialog, node_uuid)
                        ELSE st.dialog
             next_st ==
                 IF NodeClaimed(st.diff, node_uuid) THEN st
                 ELSE IF node_state = DELETED THEN st
                 ELSE IF node_state \notin {MODIFIED, ADDED} THEN [st EXCEPT !.raised = TRUE]
                 ELSE IF ~has_dialog_node(source_dialog, node_uuid)
                 THEN [st EXCEPT !.dialog = cleared, !.raised = TRUE]
                 ELSE [st EXCEPT
                          !.dialog = add_dialog_node(cleared, find_dialog_node(source_dialog, node_uuid)),
                          !.diff = [u \in DOMAIN st.diff \cup {node_uuid} |->
                                       IF u = node_uuid THEN node_state ELSE st.diff[u]]]
         IN MergeNodeEntries(next_st, source_dialog, source_diff, order, i + 1)

\* mutant: no root key counts as claimed
RootClaimedNever(destination_root_diff, root_node_uuid) == FALSE

\* line 1012: root_node_uuid in destination_root_diff
RootClaimed(destination_root_diff, root_node_uuid) ==
    root_node_uuid \in DOMAIN destination_root_diff

\* lines 1022-1028: the next root of the source that the destination had
RECURSIVE NextDestinationRoot(_, _, _)
NextDestinationRoot(source_root_nodes, mod_node_idx, destination_root_nodes) ==
    IF mod_node_idx >= Len(source_root_nodes) THEN ""
    ELSE IF source_root_nodes[mod_node_idx + 1] \in destination_root_nodes
         THEN source_root_nodes[mod_node_idx + 1]
         ELSE NextDestinationRoot(source_root_nodes, mod_node_idx + 1, destination_root_nodes)

\* lines 1019-1041: an added or modified root entry
PlaceRootNode(d, source_dialog, destination_root_nodes, root_node_uuid) ==
    LET source_root_nodes == get_root_nodes(source_dialog)
        source_root_nodes_order == get_root_nodes_order(source_dialog)
        next_node_uuid == NextDestinationRoot(source_root_nodes,
                                              source_root_nodes_order[root_node_uuid] + 1,
                                              destination_root_nodes)
        cleared == IF root_node_uuid \in destination_root_nodes
                   THEN remove_root_node(d, root_node_uuid)
                   ELSE d
    IN IF next_node_uuid = "" THEN add_root_node(cleared, root_node_uuid)
       ELSE add_root_node_before(cleared, next_node_uuid, root_node_uuid)

\* lines 1010-1043
RECURSIVE MergeRootEntries(_, _, _, _, _, _, _)
MergeRootEntries(st, destination_root_diff, destination_root_nodes, source_dialog, source_root_diff, order, i) ==
    IF i > Len(order) \/ st.raised THEN st
    ELSE LET root_node_uuid == order[i]
             root_node_state == source_root_diff[root_node_uuid]
             next_st ==
                 IF RootClaimed(destination_root_diff, root_node_uuid) THEN st
                 ELSE IF root_node_state = DELETED
                 THEN [st EXCEPT !.dialog = remove_root_node(@, root_node_uuid),
                                 !.applied = @ \cup {root_node_uuid}]
                 ELSE IF root_node_state \notin {ADDED, MODIFIED}
                         \/ root_node_uuid \notin Range(get_root_nodes(source_dialog))
                 THEN [st EXCEPT !.raised = TRUE]
                 ELSE [st EXCEPT !.dialog = PlaceRootNode(@, source_dialog,
                                                          destination_root_nodes, root_node_uuid),
                                 !.applied = @ \cup {root_node_uuid}]
         IN MergeRootEntries(next_st, destination_root_diff, destination_root_nodes,
                             source_dialog, source_root_diff, order, i + 1)

\* mutant: every entry is taken as deleted, so that none raises
merge_dialog_nodes_unchecked(destination_dialog, destination_diff, destination_root_diff, source_dialog, source_diff, source_root_diff, node_order, root_order) ==
    LET st1 == MergeNodeEntries([dialog |-> destination_dialog, diff |-> destination_diff,
                                 applied |-> {}, raised |-> FALSE],
                                source_dialog, [u \in DOMAIN source_diff |-> DELETED], node_order, 1)
    IN MergeRootEntries(st1, destination_root_diff, Range(get_root_nodes(st1.dialog)),
                        source_dialog, [u \in DOMAIN source_root_diff |-> DELETED], root_order, 1)

merge_dialog_nodes(destination_dialog, destination_diff, destination_root_diff, source_dialog, source_diff, source_root_diff, node_order, root_order) ==
    LET st1 == MergeNodeEntries([dialog |-> destination_dialog, diff |-> destination_diff,
                                 applied |-> {}, raised |-> FALSE],
                                source_dialog, source_diff, node_order, 1)
    IN MergeRootEntries(st1, destination_root_diff, Range(get_root_nodes(st1.dialog)),
                        source_dialog, source_root_diff, root_order, 1)

(***************************************************************************)
(* mod_manager.merge_conflicting_dialogs.  The content of a mod is the     *)
(* record paks[mod.pak]: content_index, bundles (content UUID ->           *)
(* [dialog_file, timeline_file], <<>> for no file) and dialogs (the parsed *)
(* dialog file per content UUID).                                          *)
(***************************************************************************)
has_content_bundle(content, dialog_uuid) == dialog_uuid \in Range(content.content_index)

get_content_bundle(content, dialog_uuid) == content.bundles[dialog_uuid]

\* lines 861-886: the dialog of one mod of the loop.
\* m = [dialog, dialog_resource, nodes_diff, root_diff, timeline, files, applied]
\* is the state of the merge (0 stands for the vanilla game); diff and root_diff are the diffs of the dialog of the mod (lines
\* 870-871 and 884-885), node_order and root_order the orders they are iterated in.
MergeDialogOf(m, content, mod_uuid, dialog_uuid, diff, root_diff, node_order, root_order) ==
    LET cb == get_content_bundle(content, dialog_uuid)
    IN IF m.dialog = <<>>
       THEN IF cb.dialog_file # <<>>
            THEN [m EXCEPT !.dialog = <<content.dialogs[dialog_uuid]>>,
                           !.dialog_resource = <<mod_uuid>>,
                           !.nodes_diff = diff,
                           !.root_diff = root_diff,
                           !.files = append_to_exclusion_list(@, mod_uuid, cb.dialog_file)]
            ELSE [m EXCEPT !.dialog = <<original_dialog>>, !.dialog_resource = <<0>>]
       ELSE IF cb.dialog_file # <<>>
            THEN LET r == merge_dialog_nodes(m.dialog[1], m.nodes_diff, m.root_diff,
                                             content.dialogs[dialog_uuid], diff, root_diff,
                                             node_order, root_order)
                 IN [m EXCEPT !.dialog = <<r.dialog>>,
                              !.nodes_diff = r.diff,
                              !.files = append_to_exclusion_list(@, mod_uuid, cb.dialog_file),
                              !.applied = @ \cup {<<mod_uuid, u>> : u \in r.applied},
                              !.raised = r.raised]
            ELSE m

\* lines 888-924: the timeline of one mod of the loop (the files it consumes)
MergeTimelineOf(m, content, mod_uuid, dialog_uuid) ==
    LET cb == get_content_bundle(content, dialog_uuid)
    IN IF m.raised THEN m
       ELSE IF m.timeline = <<>>
       THEN IF cb.timeline_file # <<>>
            THEN [m EXCEPT !.timeline = <<mod_uuid>>,
                           !.files = append_to_exclusion_list(@, mod_uuid, cb.timeline_file)]
            ELSE [m EXCEPT !.timeline = <<0>>]
       ELSE IF cb.timeline_file # <<>>
            THEN [m EXCEPT !.files =
                     append_to_exclusion_list(
                         append_to_exclusion_list(@, mod_uuid, cb.timeline_file),
                         mod_uuid, Replace(cb.timeline_file, <<".lsf">>, <<"_Scene", ".lsf">>))]
            ELSE m

\* d_differ.get_modified_dialog_nodes / get_modified_dialog_root_nodes of the
\* dialog file of a mod; no call when the bundle has no dialog file
NoFault == <<>>

\* the diff of the dialog of a mod, with the entry of diff_fault when that is
\* an entry of this diff
WithFault(diff, dialog_uuid, mod_uuid, roots) ==
    IF diff_fault # NoFault /\ diff_fault[1].dialog = dialog_uuid
       /\ diff_fault[1].mod_uuid = mod_uuid /\ diff_fault[1].roots = roots
    THEN [u \in DOMAIN diff \cup {diff_fault[1].key} |->
             IF u = diff_fault[1].key THEN diff_fault[1].state ELSE diff[u]]
    ELSE diff

NodeDiffOf(content, dialog_uuid) ==
    IF get_content_bundle(content, dialog_uuid).dialog_file = <<>> THEN NoDiff
    ELSE WithFault(get_modified_dialog_nodes(original_dialog, content.dialogs[dialog_uuid]),
                   dialog_uuid, content.mod_uuid, FALSE)

RootDiffOf(content, dialog_uuid) ==
    IF get_content_bundle(content, dialog_uuid).dialog_file = <<>> THEN NoDiff
    ELSE WithFault(get_modified_dialog_root_nodes(original_dialog, content.dialogs[dialog_uuid]),
                   dialog_uuid, content.mod_uuid, TRUE)

\* the orders a diff is iterated in; a key with another state than the three
\* of the differ comes first or last
AllDiffOrders(diff) ==
    LET other == {u \in DOMAIN diff : diff[u] \notin {DELETED, ADDED, MODIFIED}}
    IN {o \o u : o \in DiffOrders(diff), u \in Perms(other)}
       \cup {u \o o : o \in DiffOrders(diff), u \in Perms(other)}

\* lines 845-852: the locals of merge_conflicting_dialogs at its start
FreshMerge ==
    [dialog |-> <<>>, dialog_resource |-> <<>>, nodes_diff |-> NoDiff, root_diff |-> NoDiff,
     timeline |-> <<>>, files |-> conflicting_files, applied |-> applied_root_entries,
     raised |-> FALSE]

\* lines 926-937: the results are added to the build and to the banks, unless
\* merge_dialog_nodes raised
SetMergeState(m, dialog_uuid) ==
    /\ result_dialog' = m.dialog
    /\ dialog_nodes_diff' = m.nodes_diff
    /\ root_nodes_diff' = m.root_diff
    /\ result_timeline' = m.timeline
    /\ conflicting_files' = m.files
    /\ applied_root_entries' = m.applied
    /\ build_files' = build_files
           \o (IF m.dialog = <<>> \/ m.raised THEN <<>>
               ELSE <<[kind |-> "dialog", name |-> dialog_uuid, content |-> m.dialog[1]]>>)
           \o (IF m.timeline = <<>> \/ m.raised THEN <<>>
               ELSE <<[kind |-> "timeline", name |-> dialog_uuid, content |-> m.timeline[1]]>>)
    /\ dialog_bank' = dialog_bank
           \o (IF m.dialog_resource = <<>> \/ m.raised THEN <<>>
               ELSE <<[origin |-> "merge", mod_uuid |-> m.dialog_resource[1],
                       dialog_uuid |-> dialog_uuid, source_file |-> <<>>]>>)
    /\ timeline_bank' = timeline_bank
           \o (IF m.timeline = <<>> \/ m.raised THEN <<>>
               ELSE <<[origin |-> "merge", mod_uuid |-> m.timeline[1],
                       dialog_uuid |-> dialog_uuid, source_file |-> <<>>]>>)

\* one pass of the loop `for modinfo in mods` (lines 856-924): the merge states
\* it can leave, one per iteration order of the diffs of the mod
MergeModOf(m, modinfo, dialog_uuid) ==
    IF m.raised \/ ~modinfo.has_content THEN {m}
    ELSE IF ~has_content_bundle(paks[modinfo.pak], dialog_uuid) THEN {m}
    ELSE LET content == paks[modinfo.pak]
             diff == NodeDiffOf(content, dialog_uuid)
             root_diff == RootDiffOf(content, dialog_uuid)
         IN {MergeTimelineOf(
                 MergeDialogOf(m, content, modinfo.mod_uuid, dialog_uuid,
                               diff, root_diff, node_order, root_order),
                 content, modinfo.mod_uuid, dialog_uuid) :
                node_order \in AllDiffOrders(diff), root_order \in AllDiffOrders(root_diff)}

\* the loop over the mods, from position i on
RECURSIVE MergeModsFrom(_, _, _, _)
MergeModsFrom(ms, order, dialog_uuid, i) ==
    IF i > Len(order) THEN ms
    ELSE MergeModsFrom(UNION {MergeModOf(m, mods[order[i]], dialog_uuid) : m \in ms},
                       order, dialog_uuid, i + 1)

\* merge_conflicting_dialogs(dialog_uuid, mods)
MergeConflictingDialogs ==
    /\ pc = "merge_conflicting_dialogs"
    /\ \E m \in MergeModsFrom({FreshMerge}, mod_priority_order, cur_dialog, 1) :
          /\ SetMergeState(m, cur_dialog)
          /\ pc' = IF m.raised THEN "merge_failed" ELSE "merged"
    /\ UNCHANGED <<mod_priority_order, cur_dialog>>
    /\ UNCHANGED resolveVars
    /\ UNCHANGED runVars
    /\ UNCHANGED tlVars
    /\ UNCHANGED diff_fault
    /\ UNCHANGED timeline_loop
    /\ UNCHANGED hostVars
    /\ UNCHANGED pakVars
    /\ UNCHANGED diffVars
    /\ UNCHANGED scanVars

(***************************************************************************)
(* mod_manager.resolve_conflicts and the passes it runs.  The files of a   *)
(* mod are paks[mod.pak].files; paks[mod.pak].xml gives, per file, its     *)
(* region, the entries of the region and the resources of its banks.       *)
(***************************************************************************)
MERGE == "merge"
PATCH == "patch"

Contains(path, sub) ==
    \E i \in 1..(Len(path) - Len(sub) + 1) : SubSeq(path, i, i + Len(sub) - 1) = sub

Last(path) == path[Len(path)]

\* the number of directories of a path
NumDirs(path) == Cardinality({i \in DOMAIN path : path[i] \in {"/", "\\"}})

\* lines 457-466: the files of the story compiler
ClutterFiles ==
    << <<"\\", "Story", "\\", "story_ac", ".dat">>,
       <<"\\", "Story", "\\", "story", ".div">>,
       <<"\\", "Story", "\\", "story", ".div", ".osi">>,
       <<"\\", "Story", "\\", "goals", ".raw">>,
       <<"\\", "Story", "\\", "log", ".txt">>,
       <<"\\", "Story", "\\", "story_orphanqueries_found", ".txt">>,
       <<"\\", "Story", "\\", "story_orphanqueries_ignore", ".txt">>,
       <<"\\", "Story", "\\", "RawFiles", "\\", "story_definitions", ".div">>,
       <<"\\", "Story", "\\", "RawFiles", "\\", "story_header", ".div">> >>

RECURSIVE AppendAll(_, _, _, _)
AppendAll(cf, mod_uuid, files, i) ==
    IF i > Len(files) THEN cf
    ELSE AppendAll(append_to_exclusion_list(cf, mod_uuid, files[i]), mod_uuid, files, i + 1)

\* lines 456-470
RECURSIVE ExcludeClutter(_, _, _)
ExcludeClutter(cf, order, i) ==
    IF i > Len(order) THEN cf
    ELSE ExcludeClutter(AppendAll(cf, mods[order[i]].mod_uuid, ClutterFiles, 1), order, i + 1)

RECURSIVE ExcludeMeta(_, _, _)
ExcludeMeta(cf, order, i) ==
    IF i > Len(order) THEN cf
    ELSE ExcludeMeta(AppendAll(cf, mods[order[i]].mod_uuid,
                               << <<"\\", "meta", ".lsx">>, <<"\\", "mod_publish_logo", ".png">> >>, 1),
                     order, i + 1)

\* add_to_report: a line of the report is its text and the values it names
Line(text, arg) == [text |-> text, arg |-> arg]

ExclusionLine(mod_uuid, file) ==
    Line("added to exclusion list of mod", <<ToString(mod_uuid)>> \o file)

\* line 966: one line of the report for every entry that new has and old had not
RECURSIVE AddedLines(_, _, _)
AddedLines(old, new, u) ==
    IF u > NumMods THEN <<>>
    ELSE (IF u \in DOMAIN new
          THEN LET had == IF u \in DOMAIN old THEN Len(old[u]) ELSE 0
               IN [k \in 1..(Len(new[u]) - had) |-> ExclusionLine(u, new[u][had + k])]
          ELSE <<>>) \o AddedLines(old, new, u + 1)

\* resolve_conflicts has not returned
NoResult == [kind |-> "none", status |-> FALSE, message |-> ""]

\* line 502: return (True, 'Success')
Returned(status, message) == [kind |-> "return", status |-> status, message |-> message]

\* an exception that leaves resolve_conflicts through the finally clause
Raised(exc) == [kind |-> "raise", status |-> FALSE, message |-> exc]

\* mutant: the worklog is only written when the run succeeded
WriteWorklogOnSuccess(success, lines) ==
    IF success THEN Append(worklog, [suffix |-> "success", lines |-> lines]) ELSE worklog

\* lines 503-510: the worklog file of the run
WriteWorklog(success, lines) ==
    Append(worklog, [suffix |-> IF success THEN "success" ELSE "failure", lines |-> lines])

\* lines 437-441: the dialogs of the chosen conflicts
RECURSIVE ChosenDialogs(_, _)
ChosenDialogs(chosen, i) ==
    IF i > Len(chosen) THEN <<>>
    ELSE conflicts[chosen[i]].dialogs \o ChosenDialogs(chosen, i + 1)

\* lines 391-427: the report is cleared; with metadata given, meta.lsx of the
\* first mod is put on the exclusion list
ResolveStart ==
    /\ pc = "resolve_conflicts"
    /\ report' = <<Line("*** merge_mods ***", <<>>)>>
                   \o (IF settings.metadata
                       THEN <<ExclusionLine(settings.priority_order[1], <<"\\", "meta", ".lsx">>)>>
                       ELSE <<>>)
    /\ conflicting_files' =
          IF settings.metadata
          THEN append_to_exclusion_list(conflicting_files, settings.priority_order[1],
                                        <<"\\", "meta", ".lsx">>)
          ELSE conflicting_files
    /\ applied_root_entries' = {}
    /\ build_files' = <<>>
    /\ dialog_bank' = <<>>
    /\ timeline_bank' = <<>>
    /\ output_files' = <<>>
    /\ pc' = "resolve_setup"
    /\ UNCHANGED <<mod_priority_order, cur_dialog, result_dialog, dialog_nodes_diff,
                   root_nodes_diff, result_timeline>>
    /\ UNCHANGED <<settings, dialog_queue>>
    /\ UNCHANGED <<worklog, run_result, job_result>>
    /\ UNCHANGED diffVars
    /\ UNCHANGED scanVars
    /\ UNCHANGED tlVars
    /\ UNCHANGED diff_fault
    /\ UNCHANGED timeline_loop
    /\ UNCHANGED hostVars
    /\ UNCHANGED pakVars

\* lines 428-441: the exclusion list is cleared, the priority list is built
ResolveClear ==
    /\ pc = "resolve_setup"
    /\ conflicting_files' = NoExclusions
    /\ mod_priority_order' = [i \in DOMAIN settings.priority_order |->
                                 get_mod_info(mods_index, settings.priority_order[i])]
    /\ report' = report \o <<Line("mod priority order:", <<>>)>>
                        \o [i \in DOMAIN settings.priority_order |->
                               Line("mod", <<ToString(settings.priority_order[i])>>)]
    /\ dialog_queue' = ChosenDialogs(settings.chosen_conflicts, 1)
    /\ pc' = "merging"
    /\ UNCHANGED <<cur_dialog, result_dialog, dialog_nodes_diff, root_nodes_diff,
                   result_timeline, applied_root_entries>>
    /\ UNCHANGED <<settings, output_files>>
    /\ UNCHANGED buildVars
    /\ UNCHANGED <<worklog, run_result, job_result>>
    /\ UNCHANGED diffVars
    /\ UNCHANGED scanVars
    /\ UNCHANGED tlVars
    /\ UNCHANGED diff_fault
    /\ UNCHANGED timeline_loop
    /\ UNCHANGED hostVars
    /\ UNCHANGED pakVars

\* lines 443-453: one pass of the loop over the chosen dialogs
ResolveMergeDialog ==
    /\ pc = "merging"
    /\ dialog_queue # <<>>
    /\ \E m \in MergeModsFrom({FreshMerge}, mod_priority_order, Head(dialog_queue), 1) :
          /\ SetMergeState(m, Head(dialog_queue))
          /\ IF m.raised
             THEN /\ report' = report
                        \o <<Line("resolving conflicts in dialog", <<Head(dialog_queue)>>)>>
                        \o AddedLines(conflicting_files, conflicting_files', 1)
                        \o <<Line("finished merging dialog nodes for", <<Head(dialog_queue)>>)>>
                  /\ pc' = "failed"
                  /\ worklog' = WriteWorklog(FALSE, report')
                  /\ run_result' = Raised("merge_dialog_nodes() failed for dialog "
                                          \o Head(dialog_queue))
             ELSE /\ report' = report
                        \o <<Line("resolving conflicts in dialog", <<Head(dialog_queue)>>)>>
                        \o AddedLines(conflicting_files, conflicting_files', 1)
                        \o <<Line("finished resolving conflicts in dialog",
                                  <<Head(dialog_queue)>>)>>
                  /\ UNCHANGED <<pc, worklog, run_result>>
    /\ cur_dialog' = Head(dialog_queue)
    /\ dialog_queue' = Tail(dialog_queue)
    /\ UNCHANGED <<mod_priority_order, settings, output_files>>
    /\ UNCHANGED job_result
    /\ UNCHANGED diffVars
    /\ UNCHANGED scanVars
    /\ UNCHANGED tlVars
    /\ UNCHANGED diff_fault
    /\ UNCHANGED timeline_loop
    /\ UNCHANGED hostVars
    /\ UNCHANGED pakVars

\* lines 455-470
ResolveExclusions ==
    /\ pc = "merging"
    /\ dialog_queue = <<>>
    /\ IF settings.method = MERGE
       THEN /\ conflicting_files' =
                   ExcludeMeta(ExcludeClutter(conflicting_files, mod_priority_order, 1),
                               mod_priority_order, 2)
            /\ pc' = "merge_resource_banks"
       ELSE /\ pc' = "build"
            /\ UNCHANGED conflicting_files
    /\ report' = report \o AddedLines(conflicting_files, conflicting_files', 1)
    /\ UNCHANGED <<mod_priority_order, cur_dialog, result_dialog, dialog_nodes_diff,
                   root_nodes_diff, result_timeline, applied_root_entries>>
    /\ UNCHANGED resolveVars
    /\ UNCHANGED buildVars
    /\ UNCHANGED <<worklog, run_result, job_result>>
    /\ UNCHANGED diffVars
    /\ UNCHANGED scanVars
    /\ UNCHANGED tlVars
    /\ UNCHANGED diff_fault
    /\ UNCHANGED timeline_loop
    /\ UNCHANGED hostVars
    /\ UNCHANGED pakVars

(***************************************************************************)
(* mod_manager.merge_resource_banks                                        *)
(***************************************************************************)
\* line 537: a file of the dialog and timeline banks
IsBankFile(f) ==
    /\ NumDirs(f) > 1
    /\ f[1] = "Public"
    /\ Len(f) >= 5 /\ f[5] = "Content"
    /\ Last(f) = ".lsf"

\* mutant: the source file of a dialog resource is taken as written
DialogSourceFileAsWritten(source_file) == source_file

\* lines 547-549: the source file of a dialog resource
DialogSourceFile(source_file) ==
    IF Contains(source_file, <<"/", "Story", "/", "Dialogs", "/">>)
    THEN Replace(Replace(source_file, <<"/", "Story", "/", "Dialogs", "/">>,
                         <<"/", "Story", "/", "DialogsBinary", "/">>),
                 <<".lsj">>, <<".lsf">>)
    ELSE source_file

\* lines 546-554 and 561-567: the resources of a bank that are not excluded
RECURSIVE AddResources(_, _, _, _, _, _)
AddResources(bank, cf, mod_uuid, resources, is_dialog, i) ==
    IF i > Len(resources) THEN bank
    ELSE LET source_file == IF is_dialog THEN DialogSourceFile(resources[i].SourceFile)
                            ELSE resources[i].SourceFile
             added == IF ~is_in_exclusion_list(cf, mod_uuid, Replace(source_file, <<"/">>, <<"\\">>))
                      THEN Append(bank, [origin |-> "bank", mod_uuid |-> mod_uuid,
                                         dialog_uuid |-> resources[i].dialog_uuid,
                                         source_file |-> resources[i].SourceFile])
                      ELSE bank
         IN AddResources(added, cf, mod_uuid, resources, is_dialog, i + 1)

\* lines 535-567: one file of a mod; st = [files, dialog_bank, timeline_bank]
BankFileOf(st, mi, f) ==
    IF ~IsBankFile(f) THEN st
    ELSE LET doc == paks[mi.pak].xml[f]
             st1 == IF Len(doc.dialog_resources) > 0
                    THEN LET cf == append_to_exclusion_list(st.files, mi.mod_uuid, f)
                         IN [st EXCEPT !.files = cf,
                                       !.dialog_bank = AddResources(@, cf, mi.mod_uuid,
                                                                    doc.dialog_resources, TRUE, 1)]
                    ELSE st
         IN IF Len(doc.timeline_resources) > 0
            THEN LET cf == append_to_exclusion_list(st1.files, mi.mod_uuid, f)
                 IN [st1 EXCEPT !.files = cf,
                                !.timeline_bank = AddResources(@, cf, mi.mod_uuid,
                                                               doc.timeline_resources, FALSE, 1)]
            ELSE st1

\* mod_info.mod_files and mod_info.mod_folder: empty for a mod that is only
\* listed in modsettings.lsx (lines 45-51, 339)
ModFiles(mi) == IF mi.has_content THEN paks[mi.pak].files ELSE <<>>

ModFolder(mi) == IF mi.has_content THEN paks[mi.pak].mod_folder ELSE ""

\* lines 524-525: the loops over the mods and their files
RECURSIVE BankFilesFrom(_, _, _, _)
BankFilesFrom(st, order, i, j) ==
    IF i > Len(order) THEN st
    ELSE IF j > Len(ModFiles(mods[order[i]])) THEN BankFilesFrom(st, order, i + 1, 1)
    ELSE BankFilesFrom(BankFileOf(st, mods[order[i]], ModFiles(mods[order[i]])[j]),
                       order, i, j + 1)

merge_resource_banks(cf, dbank, tbank, order) ==
    BankFilesFrom([files |-> cf, dialog_bank |-> dbank, timeline_bank |-> tbank], order, 1, 1)

MergeResourceBanks ==
    /\ pc = "merge_resource_banks"
    /\ LET st == merge_resource_banks(conflicting_files, dialog_bank, timeline_bank,
                                      mod_priority_order)
       IN /\ conflicting_files' = st.files
          /\ dialog_bank' = st.dialog_bank
          /\ timeline_bank' = st.timeline_bank
    /\ pc' = "merge_overlapping_files"
    /\ report' = report \o AddedLines(conflicting_files, conflicting_files', 1)
    /\ UNCHANGED <<worklog, run_result, job_result>>
    /\ UNCHANGED build_files
    /\ UNCHANGED <<mod_priority_order, cur_dialog, result_dialog, dialog_nodes_diff,
                   root_nodes_diff, result_timeline, applied_root_entries>>
    /\ UNCHANGED resolveVars
    /\ UNCHANGED diffVars
    /\ UNCHANGED scanVars
    /\ UNCHANGED tlVars
    /\ UNCHANGED diff_fault
    /\ UNCHANGED timeline_loop
    /\ UNCHANGED hostVars
    /\ UNCHANGED pakVars

(***************************************************************************)
(* mod_manager.merge_overlapping_files                                     *)
(***************************************************************************)
\* __is_mergeable
is_mergeable(file_name) ==
    IF file_name[1] = "Mods" /\ file_name[2] = "/"
           /\ Contains(file_name, <<"/", "Story", "/", "DialogsBinary", "/">>) THEN FALSE
    ELSE IF file_name[1] = "Public" /\ file_name[2] = "/"
           /\ Contains(file_name, <<"/", "Timeline", "/", "Generated", "/">>) THEN FALSE
    ELSE IF Last(file_name) = ".lsf" THEN TRUE
    ELSE Contains(file_name, <<"/", "Gossips", "/">>)

\* lines 683-688: the folder of the mod replaced by $ModName$
NormalisedName(f) ==
    LET a == IF NumDirs(f) + 1 > 2 /\ f[1] \in {"Mods", "Public"}
             THEN [f EXCEPT ![3] = "$ModName$"] ELSE f
    IN IF NumDirs(a) + 1 > 3 /\ a[1] = "Generated" /\ a[3] = "Public"
       THEN [a EXCEPT ![5] = "$ModName$"] ELSE a

\* lines 676-693: overlapping_files_dict, name -> (base mod index, [(mod index, name)]);
\* mod_index counts the mods that have content
RECURSIVE CollectOverlapping(_, _, _, _, _)
CollectOverlapping(d, order, i, j, mod_index) ==
    IF i > Len(order) THEN d
    ELSE IF ~mods[order[i]].has_content THEN CollectOverlapping(d, order, i + 1, 1, mod_index)
    ELSE IF j > Len(paks[mods[order[i]].pak].files)
         THEN CollectOverlapping(d, order, i + 1, 1, mod_index + 1)
    ELSE LET f == paks[mods[order[i]].pak].files[j]
             n == NormalisedName(f)
             next_d == IF ~is_mergeable(f) THEN d
                       ELSE IF n \in Range(d.keys)
                            THEN [d EXCEPT !.val[n].overlapping = Append(@, <<mod_index, n>>)]
                            ELSE [keys |-> Append(d.keys, n),
                                  val |-> (n :> [base |-> mod_index, overlapping |-> <<>>]) @@ d.val]
         IN CollectOverlapping(next_d, order, i, j + 1, mod_index)

MergeableRegions == {"Gossips", "Templates", "TranslatedStringKeys", "CharacterVisualBank"}

\* mutant: every entry of the source is appended
merge_xml_all(dest_entries, src_entries) == dest_entries \o src_entries

\* __merge_xml: the entries of the source whose key the destination had not
merge_xml(dest_entries, src_entries) ==
    LET existing_nodes_ids == {dest_entries[i].key : i \in DOMAIN dest_entries}
    IN dest_entries \o SelectSeq(src_entries, LAMBDA node : node.key \notin existing_nodes_ids)

\* __merge_overlapping_files: the first region both files have is merged
merge_files(base_doc, overlapping_doc) ==
    IF base_doc.region \in MergeableRegions /\ overlapping_doc.region = base_doc.region
    THEN [base_doc EXCEPT !.entries = merge_xml(@, overlapping_doc.entries)]
    ELSE base_doc

\* game_file(tool, file_name, pak_name): tool.unpack finds the file in the pak or raises
InPak(mi, file_name) == file_name \in Range(ModFiles(mi))

\* lines 716-720: the overlapping copies of one file; st = [files, doc, failed, reads],
\* reads the (mod, file) pairs game_file was made of
RECURSIVE MergeCopies(_, _, _, _)
MergeCopies(st, order, overlapping, k) ==
    IF k > Len(overlapping) \/ st.failed THEN st
    ELSE LET mi == mods[order[overlapping[k][1] + 1]]
             file_name == Replace(overlapping[k][2], <<"$ModName$">>, <<ModFolder(mi)>>)
         IN IF ~InPak(mi, file_name) THEN [st EXCEPT !.failed = TRUE]
            ELSE MergeCopies([st EXCEPT
                                 !.doc = merge_files(@, paks[mi.pak].xml[file_name]),
                                 !.files = append_to_exclusion_list(@, mi.mod_uuid, file_name),
                                 !.reads = Append(@, [mod_uuid |-> mi.mod_uuid,
                                                      file |-> file_name])],
                             order, overlapping, k + 1)

\* lines 697-718: the files of the dict in turn; st = [files, build, failed]
RECURSIVE MergeOverlapping(_, _, _, _)
MergeOverlapping(st, order, d, n) ==
    IF n > Len(d.keys) \/ st.failed THEN st
    ELSE LET v == d.val[d.keys[n]]
             mi == mods[order[v.base + 1]]
             base_file_name == Replace(d.keys[n], <<"$ModName$">>, <<ModFolder(mi)>>)
         IN IF v.overlapping = <<>> THEN MergeOverlapping(st, order, d, n + 1)
            ELSE IF ~InPak(mi, base_file_name) THEN [st EXCEPT !.failed = TRUE]
            ELSE LET r == MergeCopies([files |-> st.files,
                                       doc |-> paks[mi.pak].xml[base_file_name],
                                       failed |-> FALSE, reads |-> <<>>],
                                      order, v.overlapping, 1)
                 IN IF r.failed THEN [st EXCEPT !.files = r.files, !.failed = TRUE]
                    ELSE MergeOverlapping(
                             [st EXCEPT
                                 !.files = append_to_exclusion_list(r.files, mi.mod_uuid,
                                                                    base_file_name),
                                 !.build = Append(@, [kind |-> "file", name |-> base_file_name,
                                                      content |-> r.doc,
                                                      base |-> mi.mod_uuid,
                                                      reads |-> r.reads])],
                             order, d, n + 1)

merge_overlapping_files(cf, build, order) ==
    MergeOverlapping([files |-> cf, build |-> build, failed |-> FALSE], order,
                     CollectOverlapping(EmptyDict, order, 1, 1, 0), 1)

MergeOverlappingFiles ==
    /\ pc = "merge_overlapping_files"
    /\ LET st == merge_overlapping_files(conflicting_files, build_files, mod_priority_order)
       IN /\ conflicting_files' = st.files
          /\ build_files' = st.build
          /\ report' = report \o AddedLines(conflicting_files, st.files, 1)
          /\ IF st.failed
             THEN /\ pc' = "failed"
                  /\ worklog' = WriteWorklog(FALSE, report')
                  /\ run_result' = Raised("FileNotFoundError: unpack")
             ELSE /\ pc' = "copy_mod_files"
                  /\ UNCHANGED <<worklog, run_result>>
    /\ UNCHANGED job_result
    /\ UNCHANGED <<dialog_bank, timeline_bank>>
    /\ UNCHANGED <<mod_priority_order, cur_dialog, result_dialog, dialog_nodes_diff,
                   root_nodes_diff, result_timeline, applied_root_entries>>
    /\ UNCHANGED resolveVars
    /\ UNCHANGED diffVars
    /\ UNCHANGED scanVars
    /\ UNCHANGED tlVars
    /\ UNCHANGED diff_fault
    /\ UNCHANGED timeline_loop
    /\ UNCHANGED hostVars
    /\ UNCHANGED pakVars

(***************************************************************************)
(* mod_manager.copy_mod_files, for every mod of the priority order         *)
(***************************************************************************)
\* unpack_mod: the file f of the pak below <output>\build\<mod uuid>
UnpackedPath(mod_uuid, f) ==
    <<"build", "\\", ToString(mod_uuid), "\\">> \o Replace(f, <<"/">>, <<"\\">>)

\* lines 791-797: the destination, the folder of the mod replaced by mod_folder
DestPath(f, mod_folder) ==
    LET rel == Replace(f, <<"/">>, <<"\\">>)
        a == IF NumDirs(rel) >= 2 /\ rel[1] \in {"Mods", "Public"}
             THEN [rel EXCEPT ![3] = mod_folder] ELSE rel
        b == IF NumDirs(a) >= 3 /\ a[1] = "Generated" /\ a[3] = "Public"
             THEN [a EXCEPT ![5] = mod_folder] ELSE a
    IN <<"output", "\\">> \o b

\* mutant: the goal file is copied under the name that exists
NewDestPathSame(out, dest_path) == dest_path

\* line 804: the name with the first characters of a new random UUID before .txt;
\* the UUID is new for every file written
NewDestPath(out, dest_path) ==
    Replace(dest_path, <<".txt">>, <<"$uuid" \o ToString(Len(out)), ".txt">>)

\* lines 798-815: one file; out is the list of the files written
CopyFile(out, cf, mod_uuid, f, mod_folder) ==
    LET full_src_path == UnpackedPath(mod_uuid, f)
        dest_path == DestPath(f, mod_folder)
        written(how, path) ==
            Append(out, [dest |-> path, mod_uuid |-> mod_uuid, src |-> full_src_path, how |-> how])
    IN IF is_in_exclusion_list(cf, mod_uuid, full_src_path) THEN out
       ELSE IF \E i \in DOMAIN out : out[i].dest = dest_path
       THEN IF Contains(dest_path, <<"\\", "Stats", "\\">>) THEN written("merged", dest_path)
            ELSE IF /\ Contains(dest_path, <<"\\", "Story", "\\", "RawFiles", "\\", "Goals", "\\">>)
                    /\ Last(dest_path) = ".txt"
                 THEN written("copied", NewDestPath(out, dest_path))
                 ELSE out
       ELSE written("copied", dest_path)

\* lines 798-815: the line of the report for one file
CopyLine(out, cf, mod_uuid, f, mod_folder) ==
    LET full_src_path == UnpackedPath(mod_uuid, f)
        dest_path == DestPath(f, mod_folder)
    IN IF is_in_exclusion_list(cf, mod_uuid, full_src_path)
       THEN Line("skipped because it is in exclusion list", full_src_path)
       ELSE IF \E i \in DOMAIN out : out[i].dest = dest_path
       THEN IF Contains(dest_path, <<"\\", "Stats", "\\">>)
            THEN Line("a file already exists at destination, merged text from", full_src_path)
            ELSE IF /\ Contains(dest_path, <<"\\", "Story", "\\", "RawFiles", "\\", "Goals", "\\">>)
                    /\ Last(dest_path) = ".txt"
                 THEN Line("copying to a new name", full_src_path)
                 ELSE Line("a file already exists at destination, skipped copying", full_src_path)
       ELSE Line("copying", full_src_path)

\* lines 776-816 for every mod: the lines the copy pass adds to the report
RECURSIVE CopyLinesFrom(_, _, _, _, _, _)
CopyLinesFrom(out, cf, order, mod_folder, i, j) ==
    IF i > Len(order) THEN <<>>
    ELSE LET mi == mods[order[i]]
         IN IF j = 0
            THEN <<Line("copying files from mod", <<ToString(mi.mod_uuid)>>)>>
                     \o CopyLinesFrom(out, cf, order, mod_folder, i, 1)
            ELSE IF j > Len(paks[mi.pak].files)
            THEN <<Line("finished copying files from mod", <<ToString(mi.mod_uuid)>>)>>
                     \o CopyLinesFrom(out, cf, order, mod_folder, i + 1, 0)
            ELSE <<CopyLine(out, cf, mi.mod_uuid, paks[mi.pak].files[j], mod_folder)>>
                     \o CopyLinesFrom(CopyFile(out, cf, mi.mod_uuid, paks[mi.pak].files[j],
                                                mod_folder),
                                       cf, order, mod_folder, i, j + 1)

RECURSIVE CopyFilesFrom(_, _, _, _, _, _)
CopyFilesFrom(out, cf, order, mod_folder, i, j) ==
    IF i > Len(order) THEN out
    ELSE IF j > Len(paks[mods[order[i]].pak].files)
         THEN CopyFilesFrom(out, cf, order, mod_folder, i + 1, 1)
    ELSE CopyFilesFrom(CopyFile(out, cf, mods[order[i]].mod_uuid,
                                paks[mods[order[i]].pak].files[j], mod_folder),
                       cf, order, mod_folder, i, j + 1)

\* lines 400-407: the folder of the resulting mod
ResultModFolder ==
    IF settings.metadata THEN "NewMod"
    ELSE ModFolder(mods[get_mod_info(mods_index, settings.priority_order[1])])

\* unpack_mod, tool.unpack_pak line 338: the first mod of the order that has no
\* pak file to unpack, or none
Unpackable(order) ==
    IF \A i \in DOMAIN order : mods[order[i]].has_content THEN order
    ELSE SubSeq(order, 1, (CHOOSE i \in DOMAIN order :
                              /\ ~mods[order[i]].has_content
                              /\ \A j \in 1..(i - 1) : mods[order[j]].has_content) - 1)

\* lines 475-482
CopyModFiles ==
    /\ pc = "copy_mod_files"
    /\ output_files' = CopyFilesFrom(output_files, conflicting_files,
                                     Unpackable(mod_priority_order), ResultModFolder, 1, 1)
    /\ report' = report \o CopyLinesFrom(output_files, conflicting_files,
                                          Unpackable(mod_priority_order), ResultModFolder, 1, 0)
    /\ IF Unpackable(mod_priority_order) = mod_priority_order
       THEN /\ pc' = "build"
            /\ UNCHANGED <<worklog, run_result>>
       ELSE /\ pc' = "failed"
            /\ worklog' = WriteWorklog(FALSE, report')
            /\ run_result' = Raised("FileNotFoundError: unpack_pak")
    /\ UNCHANGED <<settings, dialog_queue>>
    /\ UNCHANGED job_result
    /\ UNCHANGED mergeVars
    /\ UNCHANGED buildVars
    /\ UNCHANGED diffVars
    /\ UNCHANGED scanVars
    /\ UNCHANGED tlVars
    /\ UNCHANGED diff_fault
    /\ UNCHANGED timeline_loop
    /\ UNCHANGED hostVars
    /\ UNCHANGED pakVars

\* uninstall_mod, lines 142-164, on st = [modsettings, paks, index]: the entry
\* of the mod leaves modsettings.lsx; then get_mod_info and os.unlink, and the
\* mod leaves the index.  An exception of the two (an unknown mod, a mod
\* without a pak file) ends the call with False after modsettings.lsx was
\* rewritten.  The list of mods and the conflicts are not touched.
uninstall_mod(st, ms, mod_uuid) ==
    LET rewritten == [st EXCEPT !.modsettings = SelectSeq(@, LAMBDA u : u # mod_uuid)]
    IN IF mod_uuid \notin DOMAIN st.index THEN rewritten
       ELSE LET mi == ms[get_mod_info(st.index, mod_uuid)]
            IN IF mi.pak = 0 THEN rewritten
               ELSE IF IsDeleted(st.paks[mi.pak]) THEN rewritten
               ELSE [rewritten EXCEPT
                       !.paks[mi.pak] = DeletedPak,
                       !.index = [u \in DOMAIN st.index \ {mod_uuid} |-> st.index[u]]]

\* lines 495-496: for mod_uuid in settings.priority_order: uninstall_mod(mod_uuid)
RECURSIVE UninstallAll(_, _, _, _)
UninstallAll(st, ms, order, i) ==
    IF i > Len(order) THEN st
    ELSE UninstallAll(uninstall_mod(st, ms, order[i]), ms, order, i + 1)

\* lines 399-406: the UUID of the mod that is built; a UUID of its own when the
\* settings carry metadata
BuiltModUUID == IF settings.metadata THEN NumMods + 1 ELSE settings.priority_order[1]

\* the pak files.build packs: the mod that is built and the dialogs of its bank
BuiltPak ==
    [mod_uuid |-> BuiltModUUID,
     content_index |-> [k \in DOMAIN dialog_bank |-> dialog_bank[k].dialog_uuid]]

\* install_mod, lines 166-225: the pak is copied to the Mods directory (line
\* 175) and a ModuleShortDesc for it is appended to modsettings.lsx (lines
\* 209-222); outcome "failed" is a return False before the copy, "copied" one
\* after it (no meta.lsx, or the bare except), "installed" the return True
InstallOutcomes == {"failed", "copied", "installed"}

install_mod(st, pak, outcome) ==
    IF outcome = "failed" THEN st
    ELSE IF outcome = "copied" THEN [st EXCEPT !.paks = Append(@, pak)]
    ELSE [st EXCEPT !.paks = Append(@, pak), !.modsettings = Append(@, pak.mod_uuid)]

\* lines 484-510: the build is packed and, with install_when_done, installed
\* (lines 490-497): for PATCH the pak is installed, for MERGE the mods of the
\* priority order are uninstalled first; the run returns (True, 'Success') and
\* its finally writes the worklog
Build ==
    /\ pc = "build"
    /\ \E outcome \in InstallOutcomes :
          LET installed == [modsettings |-> modsettings, paks |-> paks, index |-> mods_index]
              st == IF ~settings.install_when_done THEN installed
                    ELSE IF settings.method = PATCH
                    THEN install_mod(installed, BuiltPak, outcome)
                    ELSE install_mod(UninstallAll(installed, mods, settings.priority_order, 1),
                                     BuiltPak, outcome)
          IN /\ modsettings' = st.modsettings
             /\ paks' = st.paks
             /\ mods_index' = st.index
    /\ run_result' = Returned(TRUE, "Success")
    /\ worklog' = WriteWorklog(TRUE, report)
    /\ pc' = "resolved"
    /\ UNCHANGED <<report, job_result>>
    /\ UNCHANGED mergeVars
    /\ UNCHANGED resolveVars
    /\ UNCHANGED buildVars
    /\ UNCHANGED diffVars
    /\ UNCHANGED <<mods, conflicts>>
    /\ UNCHANGED tlVars
    /\ UNCHANGED diff_fault
    /\ UNCHANGED timeline_loop
    /\ UNCHANGED hostVars
    /\ UNCHANGED pakVars

(***************************************************************************)
(* The resolve job of the UI (MainWindow.__resolve_conflicts, payload) run *)
(* by Runner.__thread_proc: the dict it puts on the results queue.         *)
(***************************************************************************)
NoJobResult == [keys |-> {}, status |-> FALSE, message |-> ""]

\* _wxapp.py line 664: the dict made of what resolve_conflicts returned
PayloadResult(r) ==
    [keys |-> {"result", "status", "message"}, status |-> r.status, message |-> r.message]

\* _runner.py lines 52-56: the dict made of an exception of the job
ErrorResult(r) == [keys |-> {"error", "message"}, status |-> FALSE, message |-> r.message]

\* Runner.__thread_proc, lines 48-56
RunnerDeliver ==
    /\ pc \in {"resolved", "failed"}
    /\ job_result' = IF run_result.kind = "return" THEN PayloadResult(run_result)
                     ELSE ErrorResult(run_result)
    /\ pc' = "delivered"
    /\ UNCHANGED <<report, worklog, run_result>>
    /\ UNCHANGED mergeVars
    /\ UNCHANGED resolveVars
    /\ UNCHANGED buildVars
    /\ UNCHANGED diffVars
    /\ UNCHANGED scanVars
    /\ UNCHANGED tlVars
    /\ UNCHANGED diff_fault
    /\ UNCHANGED timeline_loop
    /\ UNCHANGED hostVars
    /\ UNCHANGED pakVars

(***************************************************************************)
(* Timeline times.  A time is written in the files as a string (here the   *)
(* sequence of its characters) and computed with as a decimal.Decimal: an  *)
(* integer coefficient and a number of fractional digits, so that          *)
(* [coef |-> 73400, exp |-> 4] is 7.3400.                                  *)
(***************************************************************************)
TIMELINE_PRECISION == 4

Digits == <<"0", "1", "2", "3", "4", "5", "6", "7", "8", "9">>

DigitValue(c) == (CHOOSE i \in DOMAIN Digits : Digits[i] = c) - 1

RECURSIVE Pow10(_)
Pow10(n) == IF n = 0 THEN 1 ELSE 10 * Pow10(n - 1)

\* str.find: the position of the first c in val, 0 when there is none
Find(val, c) ==
    IF \E i \in DOMAIN val : val[i] = c
    THEN CHOOSE i \in DOMAIN val : val[i] = c /\ \A j \in 1..(i - 1) : val[j] # c
    ELSE 0

\* the number written by a sequence of digit characters
RECURSIVE DigitsValue(_)
DigitsValue(s) ==
    IF s = <<>> THEN 0
    ELSE 10 * DigitsValue(SubSeq(s, 1, Len(s) - 1)) + DigitValue(s[Len(s)])

\* decimal.Decimal(str) of "[-]digits.digits"
DecimalOf(val) ==
    LET neg == val # <<>> /\ val[1] = "-"
        body == IF neg THEN Tail(val) ELSE val
        pos == Find(body, ".")
        digits == SelectSeq(body, LAMBDA c : c # ".")
        magnitude == DigitsValue(digits)
    IN [coef |-> IF neg THEN 0 - magnitude ELSE magnitude,
        exp |-> IF pos = 0 THEN 0 ELSE Len(body) - pos]

Zeros(n) == [i \in 1..n |-> "0"]

\* mutant: the string is not padded to TIMELINE_PRECISION fractional digits
decimal_from_str_unpadded(val) ==
    LET comma == Find(val, ",")
        v == IF comma = 0 THEN val ELSE [val EXCEPT ![comma] = "."]
    IN DecimalOf(v)

\* _common.py lines 19-38
decimal_from_str(val) ==
    LET comma == Find(val, ",")
        v == IF comma = 0 THEN val ELSE [val EXCEPT ![comma] = "."]
        pos == Find(v, ".")
        n == IF pos = 0 THEN 0 ELSE Len(v) - pos
        dotted == IF pos = 0 THEN v \o <<".">> ELSE v
    IN DecimalOf(dotted \o Zeros(IF n < TIMELINE_PRECISION THEN TIMELINE_PRECISION - n ELSE 0))

\* Decimal.__sub__: exact, with the fractional digits of the finer operand
DecimalSub(a, b) ==
    LET e == IF a.exp > b.exp THEN a.exp ELSE b.exp
    IN [coef |-> a.coef * Pow10(e - a.exp) - b.coef * Pow10(e - b.exp), exp |-> e]

DecimalAdd(a, b) == DecimalSub(a, [b EXCEPT !.coef = 0 - @])

copy_negate(a) == [a EXCEPT !.coef = 0 - @]

\* the digit characters of a natural number
RECURSIVE NatStr(_)
NatStr(n) ==
    IF n < 10 THEN <<Digits[n + 1]>> ELSE NatStr(n \div 10) \o <<Digits[(n % 10) + 1]>>

\* str(Decimal): the coefficient with exp fractional digits
DecimalStr(d) ==
    LET magnitude == IF d.coef < 0 THEN 0 - d.coef ELSE d.coef
        whole == NatStr(magnitude \div Pow10(d.exp))
        frac == NatStr(magnitude % Pow10(d.exp))
        sign == IF d.coef < 0 THEN <<"-">> ELSE <<>>
    IN IF d.exp = 0 THEN sign \o whole
       ELSE sign \o whole \o <<".">> \o Zeros(d.exp - Len(frac)) \o frac

(***************************************************************************)
(* timeline_object: phases, in timeline order, each [uuid, duration] with  *)
(* the duration as written in the file, and effect components, each        *)
(* [uuid, phase, start, end] with its times as written.  A phase starts    *)
(* where the phases before it end.                                         *)
(***************************************************************************)
NoTimeline == [phases |-> <<>>, nodes |-> <<>>]

RECURSIVE PhaseStart(_, _)
PhaseStart(tl, index) ==
    IF index = 1 THEN DecimalOf(<<"0">>)
    ELSE DecimalAdd(PhaseStart(tl, index - 1), decimal_from_str(tl.phases[index - 1].duration))

has_phase(tl, phase_uuid) == \E i \in DOMAIN tl.phases : tl.phases[i].uuid = phase_uuid

\* [index, start, duration] of the phase
use_existing_phase(tl, phase_uuid) ==
    LET i == CHOOSE i \in DOMAIN tl.phases : tl.phases[i].uuid = phase_uuid
    IN [index |-> i, start |-> PhaseStart(tl, i), duration |-> tl.phases[i].duration]

create_new_phase(tl, phase_uuid, duration) ==
    [tl EXCEPT !.phases = Append(@, [uuid |-> phase_uuid, duration |-> duration])]

has_effect_component(tl, node_uuid) == \E i \in DOMAIN tl.nodes : tl.nodes[i].uuid = node_uuid

remove_effect_component(tl, node_uuid) ==
    [tl EXCEPT !.nodes = SelectSeq(@, LAMBDA n : n.uuid # node_uuid)]

find_effect_component(tl, node_uuid) ==
    tl.nodes[CHOOSE i \in DOMAIN tl.nodes : tl.nodes[i].uuid = node_uuid]

insert_new_tl_node(tl, node) == [tl EXCEPT !.nodes = Append(@, node)]

\* timeline_differ.normalize_tl_node: the times of the node less phase_start
normalize_tl_node(node, phase_start) ==
    [node EXCEPT !.start = DecimalStr(DecimalSub(decimal_from_str(@), phase_start)),
                 !.end = DecimalStr(DecimalSub(decimal_from_str(@), phase_start))]

\* lines 1071-1090: an ADDED or MODIFIED entry of a phase that is not claimed
CopyEffectComponent(st, source, node_uuid, phase_uuid) ==
    LET existed == has_phase(st.tl, phase_uuid)
        tl1 == IF existed THEN st.tl
               ELSE create_new_phase(st.tl, phase_uuid,
                                     use_existing_phase(source, phase_uuid).duration)
        destionation_phase == use_existing_phase(tl1, phase_uuid)
        report1 == IF existed
                   THEN <<Line("timeline phase exists in the result",
                               <<phase_uuid, ToString(destionation_phase.index)>>)>>
                   ELSE <<Line("timeline phase does not exists in the result", <<phase_uuid>>),
                          Line("timeline phase was created in the result",
                               <<phase_uuid, ToString(destionation_phase.index)>>)>>
        replaced == has_effect_component(tl1, node_uuid)
        tl2 == IF replaced THEN remove_effect_component(tl1, node_uuid) ELSE tl1
        report2 == IF replaced
                   THEN <<Line("timeline phase in the result contains existing node, removing it",
                               <<phase_uuid, node_uuid>>)>>
                   ELSE <<>>
    IN IF ~has_phase(source, phase_uuid) /\ ~existed
       THEN [st EXCEPT !.report = @ \o <<Line("timeline phase does not exists in the result",
                                              <<phase_uuid>>)>>,
                       !.raised = TRUE]
       ELSE IF ~has_effect_component(source, node_uuid)
                \/ ~has_phase(source, phase_uuid)
       THEN [st EXCEPT !.tl = tl2, !.report = @ \o report1 \o report2, !.raised = TRUE]
       ELSE LET effect_component == find_effect_component(source, node_uuid)
                source_phase == use_existing_phase(source, phase_uuid)
                normalized_node == normalize_tl_node(effect_component, source_phase.start)
                destination_node == normalize_tl_node(normalized_node,
                                                      copy_negate(destionation_phase.start))
            IN [st EXCEPT
                  !.tl = insert_new_tl_node(tl2, destination_node),
                  !.report = @ \o report1 \o report2
                      \o <<Line("normalized node",
                                <<node_uuid>> \o DecimalStr(source_phase.start)
                                    \o <<"|">> \o DecimalStr(destionation_phase.start)),
                           Line("timeline phase, added node to the result",
                                <<phase_uuid, node_uuid>>)>>]

\* lines 1060-1092: the entries of the diff in turn; st = [tl, report, raised]
RECURSIVE MergeTimelineEntries(_, _, _, _, _)
MergeTimelineEntries(st, claimed_phases, source, diff, k) ==
    IF k > Len(diff) \/ st.raised THEN st
    ELSE LET node_uuid == diff[k].key
             node_state == diff[k].state[1]
             phase_uuid == diff[k].state[2]
             st0 == [st EXCEPT !.report = Append(@, Line("timeline node, diff",
                                                          <<node_uuid, node_state, phase_uuid>>))]
             st1 ==
                IF phase_uuid \in claimed_phases
                THEN [st0 EXCEPT !.report = Append(@,
                        Line("timeline phase is already changed in higher priority mod, skipped timeline node",
                             <<phase_uuid, node_uuid>>))]
                ELSE IF node_state = DELETED
                THEN [st0 EXCEPT
                        !.report = Append(@,
                            Line("timeline node is deleted in the source, removing it from the result",
                                 <<node_uuid>>)),
                        !.tl = remove_effect_component(@, node_uuid)]
                ELSE IF node_state = ADDED \/ node_state = MODIFIED
                THEN CopyEffectComponent(st0, source, node_uuid, phase_uuid)
                ELSE [st0 EXCEPT !.raised = TRUE]
         IN MergeTimelineEntries(st1, claimed_phases, source,
                                 diff, k + 1)

\* lines 1050-1096; the result is [tl, report, raised]: raised when the call
\* ends with RuntimeError('merge_timeline_nodes() failed for dialog ...')
merge_timeline_nodes(dialog_uuid, destination, claimed_phases, source, diff, lines) ==
    LET st == MergeTimelineEntries(
                  [tl |-> destination,
                   report |-> Append(lines, Line("merging timeline nodes for", <<dialog_uuid>>)),
                   raised |-> FALSE],
                  claimed_phases, source, diff, 1)
    IN [st EXCEPT !.report = Append(@, Line("finished merging timeline nodes for",
                                            <<dialog_uuid>>))]

\* no merge loop over timelines, no window and no worker, no package read
NoLoop == [sources |-> <<>>, next |-> 0]

AuxIdle ==
    /\ timeline_loop = NoLoop
    /\ ui = <<>>
    /\ runner = <<>>
    /\ PAK_KEYS = <<>>
    /\ PAK_CACHE = <<>>
    /\ pak_stat = <<>>
    /\ package = <<>>

TimelineIdle ==
    /\ diff_fault = NoFault
    /\ AuxIdle
    /\ source_timeline = NoTimeline
    /\ destination_timeline = NoTimeline
    /\ source_timeline_diff = <<>>
    /\ already_changed_phases = {}

\* lines 1050-1096: one call of merge_timeline_nodes
MergeTimelineNodes ==
    /\ pc = "merge_timeline_nodes"
    /\ LET st == merge_timeline_nodes(cur_dialog, destination_timeline, already_changed_phases,
                                      source_timeline, source_timeline_diff, report)
       IN /\ destination_timeline' = st.tl
          /\ report' = st.report
          /\ pc' = IF st.raised THEN "timeline_failed" ELSE "timeline_merged"
          /\ run_result' = IF st.raised
                           THEN Raised("merge_timeline_nodes() failed for dialog " \o cur_dialog)
                           ELSE run_result
    /\ UNCHANGED <<source_timeline, source_timeline_diff, already_changed_phases, diff_fault>>
    /\ UNCHANGED timeline_loop
    /\ UNCHANGED hostVars
    /\ UNCHANGED pakVars
    /\ UNCHANGED <<worklog, job_result>>
    /\ UNCHANGED <<mod_priority_order, cur_dialog, result_dialog, dialog_nodes_diff,
                   root_nodes_diff, result_timeline, conflicting_files, applied_root_entries>>
    /\ UNCHANGED resolveVars
    /\ UNCHANGED buildVars
    /\ UNCHANGED diffVars
    /\ UNCHANGED scanVars

RunIdle ==
    /\ TimelineIdle
    /\ report = <<>>
    /\ worklog = <<>>
    /\ run_result = NoResult
    /\ job_result = NoJobResult

ResolveIdle ==
    /\ settings = <<>>
    /\ dialog_queue = <<>>
    /\ build_files = <<>>
    /\ dialog_bank = <<>>
    /\ timeline_bank = <<>>
    /\ output_files = <<>>
    /\ RunIdle

MergeIdle ==
    /\ mod_priority_order = <<>>
    /\ cur_dialog = ""
    /\ result_dialog = <<>>
    /\ dialog_nodes_diff = NoDiff
    /\ root_nodes_diff = NoDiff
    /\ result_timeline = <<>>
    /\ conflicting_files = NoExclusions
    /\ applied_root_entries = {}
    /\ ResolveIdle

(***************************************************************************)
(* Specification SpecDetect: reload_mods followed by detect_conflicts for  *)
(* every modsettings.lsx and every listing of pak files within the bounds. *)
(***************************************************************************)


ScanIdle ==
    /\ modsettings = <<>>
    /\ paks = <<>>
    /\ mods = <<>>
    /\ mods_index = <<>>
    /\ conflicts = <<>>

DiffIdle ==
    /\ original_dialog = NoDialog
    /\ modded_dialog = NoDialog
    /\ diff_result = NoDiff

InitDetect ==
    /\ pc = "reload_mods"
    /\ \E listed \in SUBSET ModUUIDs :
          modsettings = SortNat(CHOOSE s \in Perms(listed) : TRUE)
    /\ \E order \in SeqsNoDup(ModUUIDs) :
          \E content \in [Range(order) -> SeqsNoDup(DialogUUIDs)] :
              paks = [i \in DOMAIN order |->
                         [mod_uuid |-> order[i], content_index |-> content[order[i]]]]
    /\ mods = <<>>
    /\ mods_index = <<>>
    /\ conflicts = <<>>
    /\ DiffIdle
    /\ MergeIdle

ReloadMods ==
    /\ pc = "reload_mods"
    /\ LET st == reload_mods(modsettings, paks)
       IN /\ mods' = st.mods
          /\ mods_index' = st.index
    /\ conflicts' = <<>>
    /\ pc' = "detect_conflicts"
    /\ UNCHANGED <<modsettings, paks>>
    /\ UNCHANGED diffVars
    /\ UNCHANGED mergeVars
    /\ UNCHANGED resolveVars
    /\ UNCHANGED buildVars
    /\ UNCHANGED runVars
    /\ UNCHANGED tlVars
    /\ UNCHANGED diff_fault
    /\ UNCHANGED timeline_loop
    /\ UNCHANGED hostVars
    /\ UNCHANGED pakVars

DetectConflicts ==
    /\ pc = "detect_conflicts"
    /\ conflicts' = detect_conflicts(mods, mods_index)
    /\ pc' = "detected"
    /\ UNCHANGED <<modsettings, paks, mods, mods_index>>
    /\ UNCHANGED diffVars
    /\ UNCHANGED mergeVars
    /\ UNCHANGED resolveVars
    /\ UNCHANGED buildVars
    /\ UNCHANGED runVars
    /\ UNCHANGED tlVars
    /\ UNCHANGED diff_fault
    /\ UNCHANGED timeline_loop
    /\ UNCHANGED hostVars
    /\ UNCHANGED pakVars

(***************************************************************************)
(* Specification SpecSetDiff: get_modified_dialog_nodes on every pair of   *)
(* a baseline and a candidate dialog within the bounds.                    *)
(***************************************************************************)
InitSetDiff ==
    /\ pc = "nodes_diff_call"
    /\ \E present \in SUBSET NodeKeys :
          original_dialog = [nodes |-> NodeList([u \in present |-> <<VanillaNode(u)>>], 1),
                             roots |-> <<>>]
    /\ \E choice \in [NodeKeys -> {<<>>} \cup VariantIds] :
          modded_dialog =
              [nodes |-> NodeList([u \in NodeKeys |->
                                      IF choice[u] = <<>> THEN <<>>
                                      ELSE <<NodeVariant(u, choice[u])>>], 1),
               roots |-> <<>>]
    /\ diff_result = NoDiff
    /\ ScanIdle
    /\ MergeIdle

GetModifiedDialogNodes ==
    /\ pc = "nodes_diff_call"
    /\ diff_result' = get_modified_dialog_nodes(original_dialog, modded_dialog)
    /\ pc' = "nodes_diff_done"
    /\ UNCHANGED <<original_dialog, modded_dialog>>
    /\ UNCHANGED scanVars
    /\ UNCHANGED mergeVars
    /\ UNCHANGED resolveVars
    /\ UNCHANGED buildVars
    /\ UNCHANGED runVars
    /\ UNCHANGED tlVars
    /\ UNCHANGED diff_fault
    /\ UNCHANGED timeline_loop
    /\ UNCHANGED hostVars
    /\ UNCHANGED pakVars

(***************************************************************************)
(* Specification SpecOrderDiff: get_modified_dialog_root_nodes on every    *)
(* baseline root sequence R1..Rn and every candidate root sequence.        *)
(***************************************************************************)
RootKeys == {KeyNames[i] : i \in 1..MaxRoots}

InitOrderDiff ==
    /\ pc = "roots_diff_call"
    /\ \E n \in 0..MaxRoots :
          original_dialog = [nodes |-> <<>>, roots |-> SubSeq(KeyNames, 1, n)]
    /\ \E r \in SeqsNoDup(RootKeys) : modded_dialog = [nodes |-> <<>>, roots |-> r]
    /\ diff_result = NoDiff
    /\ ScanIdle
    /\ MergeIdle

GetModifiedDialogRootNodes ==
    /\ pc = "roots_diff_call"
    /\ diff_result' = get_modified_dialog_root_nodes(original_dialog, modded_dialog)
    /\ pc' = "roots_diff_done"
    /\ UNCHANGED <<original_dialog, modded_dialog>>
    /\ UNCHANGED scanVars
    /\ UNCHANGED mergeVars
    /\ UNCHANGED resolveVars
    /\ UNCHANGED buildVars
    /\ UNCHANGED runVars
    /\ UNCHANGED tlVars
    /\ UNCHANGED diff_fault
    /\ UNCHANGED timeline_loop
    /\ UNCHANGED hostVars
    /\ UNCHANGED pakVars

(***************************************************************************)
(* Specification SpecMerge: merge_conflicting_dialogs for one dialog and   *)
(* the mods 1..NumMods in priority order.  Every mod has no bundle for the *)
(* dialog, a bundle with a timeline only, or a dialog that edits the       *)
(* vanilla dialog: either its nodes (R1 kept or modified, R2 kept, deleted  *)
(* or modified, R4 added or not, the roots following the nodes) or its     *)
(* root order (the vanilla roots reordered, one of them removed, or R4     *)
(* inserted).                                                              *)
(***************************************************************************)
VanillaRoots == <<"R1", "R2", "R3">>
EditedKeys == {"R1", "R2"}
AddedKey == "R4"
MergedDialog == "d1"

VanillaDialog ==
    [nodes |-> [i \in DOMAIN VanillaRoots |-> VanillaNode(VanillaRoots[i])],
     roots |-> VanillaRoots]

\* the variant a mod gives to the nodes it modifies or adds
ModVariants == << <<3, 1, 1, 1>>, <<1, 2, 1, 1>>, <<1, 1, 2, 1>>, <<1, 1, 1, 3>>, <<3, 2, 1, 1>> >>

NodeEdits == [EditedKeys \cup {AddedKey} -> {"keep", "delete", "modify"}]

\* the dialog of mod i after the node edits e
NodeEditedDialog(i, e) ==
    LET node(u) == IF e[u] = "delete" THEN <<>>
                   ELSE IF e[u] = "modify" THEN <<NodeVariant(u, ModVariants[i])>>
                   ELSE <<VanillaNode(u)>>
        choice == [u \in Range(VanillaRoots) \cup {AddedKey} |->
                      IF u \in EditedKeys THEN node(u)
                      ELSE IF u = AddedKey
                           THEN (IF e[u] = "modify" THEN node(u) ELSE <<>>)
                           ELSE <<VanillaNode(u)>>]
    IN [nodes |-> NodeList(choice, 1),
        roots |-> SelectSeq(VanillaRoots \o <<AddedKey>>, LAMBDA u : choice[u] # <<>>)]

\* the root orders a mod can give: the vanilla roots reordered, one of them
\* removed, or R4 inserted
RootEdits ==
    Perms(Range(VanillaRoots)) \cup
    {SelectSeq(VanillaRoots, LAMBDA u : u # k) : k \in Range(VanillaRoots)} \cup
    {SubSeq(VanillaRoots, 1, i) \o <<AddedKey>> \o SubSeq(VanillaRoots, i + 1, Len(VanillaRoots)) :
        i \in 0..Len(VanillaRoots)}

RootEditedDialog(roots) ==
    [nodes |-> VanillaDialog.nodes \o
                   (IF AddedKey \in Range(roots) THEN <<VanillaNode(AddedKey)>> ELSE <<>>),
     roots |-> roots]

NoContent == [content_index |-> <<>>, bundles |-> <<>>, dialogs |-> <<>>]

TimelineOnlyContent(i) ==
    [content_index |-> <<MergedDialog>>,
     bundles |-> (MergedDialog :> [dialog_file |-> <<>>,
                                   timeline_file |-> TimelineFile(i, MergedDialog)]),
     dialogs |-> <<>>]

DialogContent(i, dialog) ==
    [content_index |-> <<MergedDialog>>,
     bundles |-> (MergedDialog :> [dialog_file |-> DialogFile(i, MergedDialog),
                                   timeline_file |-> <<>>]),
     dialogs |-> (MergedDialog :> dialog)]

\* what a mod ships for the dialog: <<"none">>, <<"timeline">> or <<"dialog", d>>
NodeEditingMods ==
    [ModUUIDs -> {<<"none">>, <<"timeline">>} \cup
                 {<<"dialog", e>> : e \in {x \in NodeEdits : /\ x[AddedKey] # "delete"
                                                             /\ x["R1"] # "delete"}}]

RootEditingMods == [ModUUIDs -> {<<"none">>} \cup {<<"dialog", r>> : r \in RootEdits}]

\* the content of mod i for what it ships
NodeEditingContent(c, i) ==
    IF c[i][1] = "none" THEN NoContent
    ELSE IF c[i][1] = "timeline" THEN TimelineOnlyContent(i)
    ELSE DialogContent(i, NodeEditedDialog(i, c[i][2]))

RootEditingContent(c, i) ==
    IF c[i][1] = "none" THEN NoContent
    ELSE DialogContent(i, RootEditedDialog(c[i][2]))

\* the pak files and the mod_info records of the mods with the contents input
MergeInput(input) ==
    /\ paks = [i \in ModUUIDs |->
                  [mod_uuid |-> i, content_index |-> input[i].content_index,
                   bundles |-> input[i].bundles, dialogs |-> input[i].dialogs]]
    /\ mods = [i \in ModUUIDs |->
                  [mod_uuid |-> i, has_content |-> TRUE,
                   content_index |-> input[i].content_index, pak |-> i]]

InitMerge ==
    /\ pc = "merge_conflicting_dialogs"
    /\ original_dialog = VanillaDialog
    /\ modded_dialog = NoDialog
    /\ diff_result = NoDiff
    /\ modsettings = <<>>
    /\ \/ \E c \in NodeEditingMods : MergeInput([i \in ModUUIDs |-> NodeEditingContent(c, i)])
       \/ \E c \in RootEditingMods : MergeInput([i \in ModUUIDs |-> RootEditingContent(c, i)])
    /\ mods_index = [i \in ModUUIDs |-> i]
    /\ conflicts = <<>>
    /\ mod_priority_order = [i \in ModUUIDs |-> i]
    /\ cur_dialog = MergedDialog
    /\ result_dialog = <<>>
    /\ dialog_nodes_diff = NoDiff
    /\ root_nodes_diff = NoDiff
    /\ result_timeline = <<>>
    /\ conflicting_files = NoExclusions
    /\ applied_root_entries = {}
    /\ ResolveIdle

(***************************************************************************)
(* Specification SpecResolve: resolve_conflicts for the mods 1..NumMods,   *)
(* all installed and listed.  Either the mods ship dialogs (any of d1,     *)
(* with a timeline, and d2, without; the dialogs are the vanilla ones) and *)
(* a bank file that lists them, or they ship a gossip file g.lsx in their  *)
(* own folder or in a shared one.  Every mod ships meta.lsx and a stats    *)
(* file.                                                                   *)
(***************************************************************************)
MetaFile(i) == <<"Mods", "/", FolderNames[i], "/", "meta", ".lsx">>

StatsFile(i) ==
    <<"Public", "/", FolderNames[i], "/", "Stats", "/", "Generated", "/", "Data", "/", "x", ".txt">>

BankFile(i) == <<"Public", "/", FolderNames[i], "/", "Content", "/", "Generated", "/", "banks", ".lsf">>

GossipFile(folder) == <<"Public", "/", folder, "/", "Gossips", "/", "g", ".lsx">>

TimelineSceneFile(i, d) == Replace(TimelineFile(i, d), <<".lsf">>, <<"_Scene", ".lsf">>)

\* the SourceFile a bank gives for a dialog: the .lsj source for the odd mods
DialogSourceAttribute(i, d) ==
    IF i % 2 = 1
    THEN <<"Mods", "/", FolderNames[i], "/", "Story", "/", "Dialogs", "/", d, ".lsj">>
    ELSE DialogFile(i, d)

HasTimeline(d) == d = "d1"

RECURSIVE FilesOfDialogs(_, _)
FilesOfDialogs(i, c) ==
    IF c = <<>> THEN <<>>
    ELSE <<DialogFile(i, c[1])>>
         \o (IF HasTimeline(c[1]) THEN <<TimelineFile(i, c[1]), TimelineSceneFile(i, c[1])>>
             ELSE <<>>)
         \o FilesOfDialogs(i, Tail(c))

NoDoc == [region |-> "", entries |-> <<>>, dialog_resources |-> <<>>, timeline_resources |-> <<>>]

BankDoc(i, c) ==
    [region |-> "DialogBank", entries |-> <<>>,
     dialog_resources |-> [k \in DOMAIN c |->
                              [SourceFile |-> DialogSourceAttribute(i, c[k]), dialog_uuid |-> c[k]]],
     timeline_resources |->
         LET t == SelectSeq(c, HasTimeline)
         IN [k \in DOMAIN t |-> [SourceFile |-> TimelineFile(i, t[k]), dialog_uuid |-> t[k]]]]

\* the pak of mod i with the dialogs c
DialogPak(i, c) ==
    [mod_uuid |-> i, mod_folder |-> FolderNames[i], content_index |-> c,
     bundles |-> [d \in Range(c) |->
                     [dialog_file |-> DialogFile(i, d),
                      timeline_file |-> IF HasTimeline(d) THEN TimelineFile(i, d) ELSE <<>>]],
     dialogs |-> [d \in Range(c) |-> VanillaDialog],
     files |-> <<MetaFile(i)>> \o FilesOfDialogs(i, c)
                   \o (IF c = <<>> THEN <<>> ELSE <<BankFile(i)>>) \o <<StatsFile(i)>>,
     xml |-> [f \in (IF c = <<>> THEN {} ELSE {BankFile(i)}) |-> BankDoc(i, c)]]

GossipKeys == {"g1", "g2"}

\* the gossips of a mod: <<>> for no file, or <<folder, keys of the entries>>
GossipChoices ==
    {<<>>} \cup {<<"own", k>> : k \in {<<"g1">>, <<"g2">>, <<"g1", "g2">>, <<"g2", "g1">>,
                                       <<"g1", "g1">>}}
           \cup {<<"Shared", <<"g1">> >>}

GossipDoc(i, keys) ==
    [region |-> "Gossips",
     entries |-> [k \in DOMAIN keys |-> [key |-> keys[k], text |-> <<i, k>>]],
     dialog_resources |-> <<>>, timeline_resources |-> <<>>]

\* the pak of mod i with the gossips g
GossipPak(i, g) ==
    LET file == IF g = <<>> THEN <<>>
                ELSE <<GossipFile(IF g[1] = "own" THEN FolderNames[i] ELSE g[1])>>
    IN [mod_uuid |-> i, mod_folder |-> FolderNames[i], content_index |-> <<>>,
        bundles |-> <<>>, dialogs |-> <<>>,
        files |-> <<MetaFile(i)>> \o file \o <<StatsFile(i)>>,
        xml |-> [f \in Range(file) |-> GossipDoc(i, g[2])]]

PriorityOrders ==
    {[i \in ModUUIDs |-> i], [i \in ModUUIDs |-> NumMods + 1 - i]}

\* the indexes of the conflicts that have several mods, in any selection
ContestedConflicts(cs) == {g \in DOMAIN cs : Len(cs[g].mods) > 1}

ResolveInputWith(pak_list, install) ==
    /\ paks = pak_list
    /\ modsettings = [i \in ModUUIDs |-> i]
    /\ LET st == reload_mods([i \in ModUUIDs |-> i], pak_list)
           cs == detect_conflicts(st.mods, st.index)
       IN /\ mods = st.mods
          /\ mods_index = st.index
          /\ conflicts = cs
          /\ \E chosen \in SUBSET ContestedConflicts(cs) :
             \E order \in PriorityOrders :
             \E method \in {MERGE, PATCH} :
             \E metadata \in BOOLEAN :
                 settings = [chosen_conflicts |-> SortNat(CHOOSE q \in Perms(chosen) : TRUE),
                             priority_order |-> order,
                             method |-> method,
                             metadata |-> metadata,
                             install_when_done |-> install]

\* the runs that leave the installed mods as they are
ResolveInput(pak_list) == ResolveInputWith(pak_list, FALSE)

InitResolve ==
    /\ pc = "resolve_conflicts"
    /\ original_dialog = VanillaDialog
    /\ modded_dialog = NoDialog
    /\ diff_result = NoDiff
    /\ \/ \E c \in [ModUUIDs -> {<<>>, <<"d1">>, <<"d2">>, <<"d1", "d2">>}] :
             ResolveInput([i \in ModUUIDs |-> DialogPak(i, c[i])])
       \/ \E g \in [ModUUIDs -> GossipChoices] :
             ResolveInput([i \in ModUUIDs |-> GossipPak(i, g[i])])
       \/ \E g \in [ModUUIDs -> {<<>>, <<"own", <<"g1">> >>, <<"own", <<"g1", "g2">> >>}],
             listed_only \in ModUUIDs :
             ResolveInput(SelectSeq([i \in ModUUIDs |-> GossipPak(i, g[i])],
                                    LAMBDA pak : pak.mod_uuid # listed_only))
    /\ mod_priority_order = <<>>
    /\ cur_dialog = ""
    /\ result_dialog = <<>>
    /\ dialog_nodes_diff = NoDiff
    /\ root_nodes_diff = NoDiff
    /\ result_timeline = <<>>
    /\ conflicting_files = NoExclusions
    /\ applied_root_entries = {}
    /\ dialog_queue = <<>>
    /\ build_files = <<>>
    /\ dialog_bank = <<>>
    /\ timeline_bank = <<>>
    /\ output_files = <<>>
    /\ RunIdle

(***************************************************************************)
(* Specification SpecTimeline: merge_timeline_nodes for every source       *)
(* timeline, destination timeline, diff and set of claimed phases within   *)
(* the bounds.  The source timeline has the phases P0 and P1; effect k is  *)
(* E<k>, in P1 when k is odd and in P0 when k is even.  The destination    *)
(* has a phase Q of its own, and P1 or not, and an old copy of E1 or not.  *)
(***************************************************************************)
SourceDurations == {<<"1", "0", ".", "0", "0", "0", "0">>, <<"2", ",", "5">>}
DestinationDurations == {<<"5", ".", "0", "0", "0", "0">>, <<"7">>}
Offsets == {<<"1", "2", ".", "3", "4", "0", "0">>, <<"1", "2", ".", "3", "4">>, <<"1", "1">>}
EffectEnd == <<"1", "3", ".", "5">>
PhaseDuration == <<"3">>

EffectUUID(k) == "E" \o ToString(k)
EffectPhase(k) == IF k % 2 = 1 THEN "P1" ELSE "P0"

\* what the diff says of an effect and what the source timeline has for it:
\* <<state, <<offset>>>>, or <<state, <<>>>> when the source has no such node
EffectChoices ==
    ({ADDED, MODIFIED, DELETED, "moved"} \X {<<o>> : o \in Offsets}) \cup {<<ADDED, <<>>>>}

RECURSIVE SourceNodes(_, _)
SourceNodes(e, k) ==
    IF k > NumEffects THEN <<>>
    ELSE (IF e[k][2] = <<>> THEN <<>>
          ELSE <<[uuid |-> EffectUUID(k), phase |-> EffectPhase(k),
                  start |-> e[k][2][1], end |-> EffectEnd]>>)
         \o SourceNodes(e, k + 1)

TimelineInput(e, a, c, has_p1, has_e1, claimed) ==
    /\ source_timeline =
          [phases |-> <<[uuid |-> "P0", duration |-> a], [uuid |-> "P1", duration |-> PhaseDuration]>>,
           nodes |-> SourceNodes(e, 1)]
    /\ destination_timeline =
          [phases |-> <<[uuid |-> "Q", duration |-> c]>>
                      \o (IF has_p1 THEN <<[uuid |-> "P1", duration |-> PhaseDuration]>> ELSE <<>>),
           nodes |-> IF has_e1
                     THEN <<[uuid |-> EffectUUID(1), phase |-> IF has_p1 THEN "P1" ELSE "Q",
                             start |-> <<"1", ".", "0", "0", "0", "0">>, end |-> EffectEnd]>>
                     ELSE <<>>]
    /\ source_timeline_diff =
          [k \in 1..NumEffects |-> [key |-> EffectUUID(k), state |-> <<e[k][1], EffectPhase(k)>>]]
    /\ already_changed_phases = claimed

InitTimeline ==
    /\ pc = "merge_timeline_nodes"
    /\ DiffIdle
    /\ ScanIdle
    /\ mod_priority_order = <<>>
    /\ cur_dialog = MergedDialog
    /\ result_dialog = <<>>
    /\ dialog_nodes_diff = NoDiff
    /\ root_nodes_diff = NoDiff
    /\ result_timeline = <<>>
    /\ conflicting_files = NoExclusions
    /\ applied_root_entries = {}
    /\ settings = <<>>
    /\ dialog_queue = <<>>
    /\ build_files = <<>>
    /\ dialog_bank = <<>>
    /\ timeline_bank = <<>>
    /\ output_files = <<>>
    /\ report = <<>>
    /\ worklog = <<>>
    /\ run_result = NoResult
    /\ job_result = NoJobResult
    /\ diff_fault = NoFault
    /\ AuxIdle
    /\ \E e \in [1..NumEffects -> EffectChoices], a \in SourceDurations,
          c \in DestinationDurations, has_p1 \in BOOLEAN, has_e1 \in BOOLEAN,
          claimed \in {{}, {"P1"}} :
          TimelineInput(e, a, c, has_p1, has_e1, claimed)

(***************************************************************************)
(* Specification SpecFaults: resolve_conflicts when the diff of the dialog *)
(* of one mod carries an entry the differ does not produce, a state other  *)
(* than the three or a key the dialog of the mod has no node for, and      *)
(* merge_timeline_nodes on diffs with such entries.                        *)
(***************************************************************************)
UNEXPECTED == "moved"
MissingKey == "R9"

Faults ==
    {[dialog |-> d, mod_uuid |-> j, roots |-> r, key |-> e[1], state |-> e[2]] :
        d \in {"d1", "d2"}, j \in ModUUIDs, r \in BOOLEAN,
        e \in {<<"R1", UNEXPECTED>>, <<MissingKey, ADDED>>}}

\* the state at the entry of resolve_conflicts, but for the mods, the
\* settings and diff_fault
ResolveEntry ==
    /\ pc = "resolve_conflicts"
    /\ original_dialog = VanillaDialog
    /\ modded_dialog = NoDialog
    /\ diff_result = NoDiff
    /\ mod_priority_order = <<>>
    /\ cur_dialog = ""
    /\ result_dialog = <<>>
    /\ dialog_nodes_diff = NoDiff
    /\ root_nodes_diff = NoDiff
    /\ result_timeline = <<>>
    /\ conflicting_files = NoExclusions
    /\ applied_root_entries = {}
    /\ dialog_queue = <<>>
    /\ build_files = <<>>
    /\ dialog_bank = <<>>
    /\ timeline_bank = <<>>
    /\ output_files = <<>>
    /\ report = <<>>
    /\ worklog = <<>>
    /\ run_result = NoResult
    /\ job_result = NoJobResult
    /\ source_timeline = NoTimeline
    /\ destination_timeline = NoTimeline
    /\ source_timeline_diff = <<>>
    /\ already_changed_phases = {}

InitFaults ==
    \/ /\ ResolveEntry
       /\ \E c \in [ModUUIDs -> {<<"d1">>, <<"d1", "d2">>}] :
             ResolveInput([i \in ModUUIDs |-> DialogPak(i, c[i])])
       /\ settings.metadata = FALSE
       /\ settings.priority_order = [i \in ModUUIDs |-> i]
       /\ \E f \in Faults : diff_fault = <<f>>
       /\ AuxIdle
    \/ InitTimeline

(***************************************************************************)
(* Specification SpecCopy: resolve_conflicts with the method MERGE for     *)
(* mods that ship, or not, the dialog d1 and a goal file of the story; the *)
(* stats file every mod ships, the dialog files of a conflict that is not  *)
(* chosen and the goal files meet at one destination in the copy pass.     *)
(***************************************************************************)
GoalFile(i) ==
    <<"Mods", "/", FolderNames[i], "/", "Story", "/", "RawFiles", "/", "Goals", "/", "goal", ".txt">>

CopyPak(i, c, goal) ==
    [DialogPak(i, c) EXCEPT !.files = @ \o (IF goal THEN <<GoalFile(i)>> ELSE <<>>)]

InitCopy ==
    /\ ResolveEntry
    /\ \E c \in [ModUUIDs -> {<<>>, <<"d1">>}], goal \in [ModUUIDs -> BOOLEAN] :
          ResolveInput([i \in ModUUIDs |-> CopyPak(i, c[i], goal[i])])
    /\ settings.metadata = FALSE
    /\ settings.method = MERGE
    /\ settings.priority_order = [i \in ModUUIDs |-> i]
    /\ diff_fault = NoFault
    /\ AuxIdle

vars == <<pc, original_dialog, modded_dialog, diff_result,
          modsettings, paks, mods, mods_index, conflicts,
          mod_priority_order, cur_dialog, result_dialog, dialog_nodes_diff,
          root_nodes_diff, result_timeline, conflicting_files, applied_root_entries,
          settings, dialog_queue, build_files, dialog_bank, timeline_bank, output_files,
          report, worklog, run_result, job_result,
          source_timeline, destination_timeline, source_timeline_diff,
          already_changed_phases, diff_fault,
          timeline_loop, ui, runner, PAK_KEYS, PAK_CACHE, pak_stat, package>>

NextSetDiff == GetModifiedDialogNodes
SpecSetDiff == InitSetDiff /\ [][NextSetDiff]_vars

NextOrderDiff == GetModifiedDialogRootNodes
SpecOrderDiff == InitOrderDiff /\ [][NextOrderDiff]_vars

NextDetect == ReloadMods \/ DetectConflicts
SpecDetect == InitDetect /\ [][NextDetect]_vars

NextMerge == MergeConflictingDialogs
SpecMerge == InitMerge /\ [][NextMerge]_vars

NextResolve ==
    \/ ResolveStart
    \/ ResolveClear
    \/ ResolveMergeDialog
    \/ ResolveExclusions
    \/ MergeResourceBanks
    \/ MergeOverlappingFiles
    \/ CopyModFiles
    \/ Build
    \/ RunnerDeliver
SpecResolve == InitResolve /\ [][NextResolve]_vars

NextTimeline == MergeTimelineNodes
SpecTimeline == InitTimeline /\ [][NextTimeline]_vars

NextFaults ==
    \/ ResolveStart
    \/ ResolveClear
    \/ ResolveMergeDialog
    \/ ResolveExclusions
    \/ MergeResourceBanks
    \/ MergeOverlappingFiles
    \/ CopyModFiles
    \/ Build
    \/ RunnerDeliver
    \/ MergeTimelineNodes
SpecFaults == InitFaults /\ [][NextFaults]_vars

NextCopy ==
    \/ ResolveStart
    \/ ResolveClear
    \/ ResolveMergeDialog
    \/ ResolveExclusions
    \/ MergeResourceBanks
    \/ MergeOverlappingFiles
    \/ CopyModFiles
    \/ Build
    \/ RunnerDeliver
SpecCopy == InitCopy /\ [][NextCopy]_vars

(***************************************************************************)
(* C2  Set-diff classification and completeness: the map returned by       *)
(* get_modified_dialog_nodes is over a subset of the baseline and          *)
(* candidate keys; a key is 'deleted' iff it is only in the baseline,      *)
(* 'added' iff it is only in the candidate, 'modified' iff it is in both   *)
(* and one of the four signatures differs, and absent from the map iff it  *)
(* is in both and all four signatures match.                               *)
(***************************************************************************)
DialogKeys(d) == {NodeUUID(d.nodes[i]) : i \in DOMAIN d.nodes}
NodeOf(d, u) == d.nodes[CHOOSE i \in DOMAIN d.nodes : NodeUUID(d.nodes[i]) = u]

SignatureDiffers(a, b) ==
    \/ attrs_to_str(a) # attrs_to_str(b)
    \/ get_dialog_children(a) # get_dialog_children(b)
    \/ get_dialog_flags(a) # get_dialog_flags(b)
    \/ get_dialog_texts(a) # get_dialog_texts(b)

StateOf(diff, u) == IF u \in DOMAIN diff THEN diff[u] ELSE "unchanged"

C2_SetDiffClassification ==
    pc = "nodes_diff_done" =>
        LET bk == DialogKeys(original_dialog)
            ck == DialogKeys(modded_dialog)
        IN /\ DOMAIN diff_result \subseteq bk \cup ck
           /\ \A u \in bk \cup ck :
                 /\ StateOf(diff_result, u) \in {DELETED, ADDED, MODIFIED, "unchanged"}
                 /\ StateOf(diff_result, u) = DELETED <=> u \in bk \ ck
                 /\ StateOf(diff_result, u) = ADDED <=> u \in ck \ bk
                 /\ StateOf(diff_result, u) = MODIFIED <=>
                        /\ u \in bk \cap ck
                        /\ SignatureDiffers(NodeOf(original_dialog, u), NodeOf(modded_dialog, u))
                 /\ StateOf(diff_result, u) = "unchanged" <=>
                        /\ u \in bk \cap ck
                        /\ ~SignatureDiffers(NodeOf(original_dialog, u), NodeOf(modded_dialog, u))

\* a diff in which a key is modified although only its tagged texts differ,
\* next to a key that is only in the baseline
C2_Witness ==
    /\ pc = "nodes_diff_done"
    /\ \E u \in DOMAIN diff_result :
          /\ diff_result[u] = MODIFIED
          /\ attrs_to_str(NodeOf(original_dialog, u)) = attrs_to_str(NodeOf(modded_dialog, u))
          /\ get_dialog_children(NodeOf(original_dialog, u)) = get_dialog_children(NodeOf(modded_dialog, u))
          /\ get_dialog_flags(NodeOf(original_dialog, u)) = get_dialog_flags(NodeOf(modded_dialog, u))
    /\ \E u \in DOMAIN diff_result : diff_result[u] = DELETED

(***************************************************************************)
(* C7  Order-diff anchor stability: when the candidate root sequence is    *)
(* the baseline with one or more new keys inserted between two adjacent    *)
(* baseline keys K1 and K2, neither K1 nor K2 is reported 'modified'.      *)
(***************************************************************************)
InsertedBetween(B, C, i) ==
    /\ i \in 1..(Len(B) - 1)
    /\ Len(C) > Len(B)
    /\ SubSeq(C, 1, i) = SubSeq(B, 1, i)
    /\ SubSeq(C, i + 1 + (Len(C) - Len(B)), Len(C)) = SubSeq(B, i + 1, Len(B))
    /\ \A j \in (i + 1)..(i + (Len(C) - Len(B))) : C[j] \notin Range(B)

C7_AnchorStability ==
    pc = "roots_diff_done" =>
        \A i \in 1..Len(original_dialog.roots) :
            InsertedBetween(original_dialog.roots, modded_dialog.roots, i) =>
                /\ StateOf(diff_result, original_dialog.roots[i]) # MODIFIED
                /\ StateOf(diff_result, original_dialog.roots[i + 1]) # MODIFIED

\* new keys inserted between two keys that are neither first nor last
C7_Witness ==
    /\ pc = "roots_diff_done"
    /\ \E i \in 2..(Len(original_dialog.roots) - 2) :
          InsertedBetween(original_dialog.roots, modded_dialog.roots, i)

(***************************************************************************)
(* C3  Conflict groups partition the contested content: after              *)
(* detect_conflicts every content UUID supplied by two or more mods is in  *)
(* the dialogs tuple of exactly one group, once, the mods of that group    *)
(* are exactly its contributors ordered by mod UUID, and a content UUID    *)
(* supplied by one mod only is in no group.                                *)
(***************************************************************************)
Contributors(d) ==
    {i \in DOMAIN mods : mods[i].has_content /\ d \in Range(mods[i].content_index)}

GroupsOf(d) == {g \in DOMAIN conflicts : d \in Range(conflicts[g].dialogs)}

AscendingByUUID(group_mods) ==
    \A i, j \in DOMAIN group_mods :
        i < j => mods[group_mods[i]].mod_uuid < mods[group_mods[j]].mod_uuid

C3_ConflictGroupsPartition ==
    pc = "detected" =>
        \A d \in DialogUUIDs :
            IF Cardinality(Contributors(d)) >= 2
            THEN /\ Cardinality(GroupsOf(d)) = 1
                 /\ \A g \in GroupsOf(d) :
                       /\ Cardinality({i \in DOMAIN conflicts[g].dialogs :
                                          conflicts[g].dialogs[i] = d}) = 1
                       /\ Range(conflicts[g].mods) = Contributors(d)
                       /\ Len(conflicts[g].mods) = Cardinality(Contributors(d))
                       /\ AscendingByUUID(conflicts[g].mods)
            ELSE GroupsOf(d) = {}

\* two content UUIDs contested by different sets of mods, the mods of one
\* of them scanned in descending UUID order
C3_Witness ==
    /\ pc = "detected"
    /\ Cardinality(Contributors("d1")) = 3
    /\ Cardinality(Contributors("d2")) = 2
    /\ \E i, j \in Contributors("d2") : i < j /\ mods[i].mod_uuid > mods[j].mod_uuid

(***************************************************************************)
(* C10 (as stated)  Every mod appears in some group: after reload_mods     *)
(* and detect_conflicts every mod of mod_list is in at least one group,    *)
(* and a mod with no contested content is in exactly one group, a          *)
(* singleton with an empty content-UUID tuple.                             *)
(***************************************************************************)
GroupsWithMod(i) == {g \in DOMAIN conflicts : i \in Range(conflicts[g].mods)}

HasContestedContent(i) ==
    /\ mods[i].has_content
    /\ \E d \in Range(mods[i].content_index) : Cardinality(Contributors(d)) >= 2

InOneEmptySingleton(i) ==
    /\ Cardinality(GroupsWithMod(i)) = 1
    /\ \A g \in GroupsWithMod(i) :
          conflicts[g].mods = <<i>> /\ conflicts[g].dialogs = <<>>

C10_EveryModInSomeGroup ==
    pc = "detected" =>
        \A i \in DOMAIN mods :
            /\ GroupsWithMod(i) # {}
            /\ ~HasContestedContent(i) => InOneEmptySingleton(i)

(***************************************************************************)
(* C10 (amended)  Every mod of mod_list whose pak was scanned (content is  *)
(* not None) is in at least one group, and such a mod with no contested    *)
(* content is in exactly one group, a singleton with an empty content-UUID *)
(* tuple; a mod that is only listed in modsettings.lsx is in no group.     *)
(***************************************************************************)
C10_EveryScannedModInSomeGroup ==
    pc = "detected" =>
        \A i \in DOMAIN mods :
            IF mods[i].has_content
            THEN /\ GroupsWithMod(i) # {}
                 /\ ~HasContestedContent(i) => InOneEmptySingleton(i)
            ELSE GroupsWithMod(i) = {}

\* a scanned mod whose content is not contested, in its singleton group,
\* next to a mod that is only listed in modsettings.lsx
C10_Witness ==
    /\ pc = "detected"
    /\ \E i \in DOMAIN mods :
          /\ mods[i].has_content /\ mods[i].content_index # <<>>
          /\ ~HasContestedContent(i)
          /\ InOneEmptySingleton(i)
    /\ \E i \in DOMAIN mods : ~mods[i].has_content

(***************************************************************************)
(* The inputs of a finished merge, read from the mods and not from the     *)
(* bookkeeping of the merge.                                               *)
(***************************************************************************)
ContentAt(i) == paks[mods[mod_priority_order[i]].pak]

HasBundleAt(i) == has_content_bundle(ContentAt(i), cur_dialog)

\* the mods of the priority order whose dialog file takes part in the merge
DialogMods ==
    {i \in DOMAIN mod_priority_order :
        HasBundleAt(i) /\ get_content_bundle(ContentAt(i), cur_dialog).dialog_file # <<>>}

DialogAt(i) == ContentAt(i).dialogs[cur_dialog]

NodeDiffAt(i) == get_modified_dialog_nodes(original_dialog, DialogAt(i))

RootDiffAt(i) == get_modified_dialog_root_nodes(original_dialog, DialogAt(i))

Highest(S) == CHOOSE i \in S : \A j \in S : i <= j

MergeKeys == Range(VanillaRoots) \cup {AddedKey}

NodeTouchers(k) == {i \in DialogMods : k \in DOMAIN NodeDiffAt(i)}

ReflectsNodeOf(i, k) ==
    IF NodeDiffAt(i)[k] = DELETED
    THEN ~has_dialog_node(result_dialog[1], k)
    ELSE /\ has_dialog_node(result_dialog[1], k)
         /\ Cardinality({j \in DOMAIN result_dialog[1].nodes :
                            NodeUUID(result_dialog[1].nodes[j]) = k}) = 1
         /\ find_dialog_node(result_dialog[1], k) = find_dialog_node(DialogAt(i), k)

(***************************************************************************)
(* C1  First-claim-wins for dialog nodes: after merge_conflicting_dialogs, *)
(* for every node key touched (added, deleted or modified against the      *)
(* vanilla dialog) by at least two of the mods, the result dialog holds    *)
(* the copy of the highest-priority of these mods if that mod added or     *)
(* modified the node, and lacks the node if that mod deleted it.           *)
(***************************************************************************)
C1_FirstClaimWins ==
    pc = "merged" =>
        \A k \in MergeKeys :
            Cardinality(NodeTouchers(k)) >= 2 => ReflectsNodeOf(Highest(NodeTouchers(k)), k)

(***************************************************************************)
(* C5  Merge determinism: the merged dialog, the order of its nodes and    *)
(* roots included, is the same whatever order the diffs of the mods are    *)
(* iterated in: it is the dialog the merge yields when every diff is       *)
(* iterated in the order of its keys.                                      *)
(***************************************************************************)
RECURSIVE SortedOrderMerge(_, _)
SortedOrderMerge(m, i) ==
    IF i > Len(mod_priority_order) THEN m
    ELSE IF ~HasBundleAt(i) THEN SortedOrderMerge(m, i + 1)
    ELSE LET diff == NodeDiffOf(ContentAt(i), cur_dialog)
             root_diff == RootDiffOf(ContentAt(i), cur_dialog)
         IN SortedOrderMerge(
                MergeDialogOf(m, ContentAt(i), mods[mod_priority_order[i]].mod_uuid, cur_dialog,
                              diff, root_diff, SortedDiffOrder(diff), SortedDiffOrder(root_diff)),
                i + 1)

C5_MergeDeterminism ==
    pc = "merged" =>
        result_dialog =
            SortedOrderMerge(FreshMerge, 1).dialog

(***************************************************************************)
(* C6  Root-order claims of the highest-priority mod win: no root-order    *)
(* entry of a lower-priority mod is applied for a key that the root-order  *)
(* diff of the highest-priority contributing mod contains; with the        *)
(* vanilla root order [R1, R2, R3], mod X deleting R2 and the lower        *)
(* priority mod Y modifying nothing but R2, the final root order is        *)
(* [R1, R3].                                                               *)
(***************************************************************************)
BundleMods == {i \in DOMAIN mod_priority_order : HasBundleAt(i)}

\* the root-order diff of the highest-priority contributing mod
BaselineRootDiff ==
    IF BundleMods = {} THEN NoDiff
    ELSE IF Highest(BundleMods) \in DialogMods THEN RootDiffAt(Highest(BundleMods))
    ELSE NoDiff

ModifiesOnly(i, k) ==
    /\ SelectSeq(DialogAt(i).roots, LAMBDA u : u # k) =
           SelectSeq(original_dialog.roots, LAMBDA u : u # k)
    /\ k \in Range(DialogAt(i).roots)
    /\ \/ k \in DOMAIN RootDiffAt(i) /\ RootDiffAt(i)[k] = MODIFIED
       \/ k \in DOMAIN NodeDiffAt(i) /\ NodeDiffAt(i)[k] = MODIFIED

ScenarioA ==
    /\ original_dialog.roots = <<"R1", "R2", "R3">>
    /\ Cardinality(BundleMods) = 2
    /\ BundleMods = DialogMods
    /\ LET X == Highest(DialogMods)
           Y == Highest(DialogMods \ {X})
       IN /\ DialogAt(X).roots = <<"R1", "R3">>
          /\ ModifiesOnly(Y, "R2")

C6_RootClaimsOfFirstModWin ==
    pc = "merged" =>
        /\ \A e \in applied_root_entries : e[2] \notin DOMAIN BaselineRootDiff
        /\ ScenarioA => result_dialog[1].roots = <<"R1", "R3">>

\* scenario A with Y moving R2: its entry for R2 is skipped
C6_Witness ==
    /\ pc = "merged"
    /\ ScenarioA
    /\ "R2" \in DOMAIN RootDiffAt(Highest(DialogMods \ {Highest(DialogMods)}))
    /\ result_dialog[1].roots = <<"R1", "R3">>

(***************************************************************************)
(* The inputs and the progress of a run of resolve_conflicts.              *)
(***************************************************************************)
ModAt(i) == mods[mod_priority_order[i]]

AllChosenDialogs == ChosenDialogs(settings.chosen_conflicts, 1)

\* the dialogs merge_conflicting_dialogs has been called for
MergedDialogs == Range(SubSeq(AllChosenDialogs, 1, Len(AllChosenDialogs) - Len(dialog_queue)))

\* the dialog and timeline files the merges took from the mod at position i
ConsumedFiles(i) ==
    LET content == paks[ModAt(i).pak]
        merged == {d \in MergedDialogs : has_content_bundle(content, d)}
    IN ({get_content_bundle(content, d).dialog_file : d \in merged}
        \cup {get_content_bundle(content, d).timeline_file : d \in merged}) \ {<<>>}

Recorded(mod_uuid, f) ==
    /\ mod_uuid \in DOMAIN conflicting_files
    /\ \E k \in DOMAIN conflicting_files[mod_uuid] :
          conflicting_files[mod_uuid][k] = Replace(f, <<"/">>, <<"\\">>)

CopiedFrom(mod_uuid, f) ==
    \E k \in DOMAIN output_files :
        /\ output_files[k].mod_uuid = mod_uuid
        /\ output_files[k].src = UnpackedPath(mod_uuid, f)

InMergeRun ==
    /\ pc \in {"merging", "merge_resource_banks", "merge_overlapping_files", "copy_mod_files",
               "build", "resolved", "failed"}
    /\ settings.method = MERGE

(***************************************************************************)
(* C4  No double application of merge sources: in a MERGE run of           *)
(* resolve_conflicts every dialog file and timeline file that              *)
(* merge_conflicting_dialogs took from a mod, as baseline or as a layered  *)
(* source, is recorded in the exclusion list of that mod, and              *)
(* copy_mod_files writes no such file into the output directory.           *)
(***************************************************************************)
C4_NoDoubleApplication ==
    InMergeRun =>
        \A i \in DOMAIN mod_priority_order :
            \A f \in ConsumedFiles(i) :
                /\ Recorded(ModAt(i).mod_uuid, f)
                /\ ~CopiedFrom(ModAt(i).mod_uuid, f)

\* a finished run in which two mods had a dialog and a timeline consumed and
\* other files of theirs were copied
C4_Witness ==
    /\ pc = "resolved"
    /\ settings.method = MERGE
    /\ \E i, j \in DOMAIN mod_priority_order :
          /\ i # j
          /\ Cardinality(ConsumedFiles(i)) >= 2
          /\ Cardinality(ConsumedFiles(j)) >= 2
          /\ CopiedFrom(ModAt(i).mod_uuid, StatsFile(ModAt(i).mod_uuid))
          /\ CopiedFrom(ModAt(j).mod_uuid, StatsFile(ModAt(j).mod_uuid))

(***************************************************************************)
(* C8  Keyed map-merge is first-seen-wins in priority order: when several  *)
(* mods of the priority order supply the same mergeable file, then for     *)
(* every dedup-attribute value occurring in a copy, the entries with that  *)
(* value in the merged file are exactly the entries of the                 *)
(* highest-priority mod whose copy has the value.                          *)
(***************************************************************************)
MergeableFilesAt(i) == {f \in Range(ModFiles(ModAt(i))) : is_mergeable(f)}

Suppliers(n) ==
    {i \in DOMAIN mod_priority_order : \E f \in MergeableFilesAt(i) : NormalisedName(f) = n}

CopyAt(i, n) ==
    paks[ModAt(i).pak].xml[CHOOSE f \in MergeableFilesAt(i) : NormalisedName(f) = n]

\* the names several mods supply a copy with keyed entries for
KeyedNames ==
    {n \in UNION {{NormalisedName(f) : f \in MergeableFilesAt(i)} : i \in DOMAIN mod_priority_order} :
        /\ Cardinality(Suppliers(n)) >= 2
        /\ \A i \in Suppliers(n) : CopyAt(i, n).region \in MergeableRegions
        /\ \A i, j \in Suppliers(n) : CopyAt(i, n).region = CopyAt(j, n).region}

KeysOf(doc) == {doc.entries[k].key : k \in DOMAIN doc.entries}

WithKey(entries, v) == SelectSeq(entries, LAMBDA e : e.key = v)

MergedFiles(n) ==
    {k \in DOMAIN build_files :
        /\ build_files[k].kind = "file"
        /\ NormalisedName(build_files[k].name) = n}

C8_KeyedMergeFirstSeenWins ==
    (pc \in {"copy_mod_files", "build", "resolved"} /\ settings.method = MERGE) =>
        \A n \in KeyedNames :
            /\ Cardinality(MergedFiles(n)) = 1
            /\ \A k \in MergedFiles(n) :
               \A v \in UNION {KeysOf(CopyAt(i, n)) : i \in Suppliers(n)} :
                   WithKey(build_files[k].content.entries, v) =
                       WithKey(CopyAt(Highest({i \in Suppliers(n) : v \in KeysOf(CopyAt(i, n))}), n).entries, v)

\* a merged file with entries of two mods although a value is in both copies
C8_Witness ==
    /\ pc = "resolved"
    /\ \E n \in KeyedNames :
       \E k \in MergedFiles(n) :
          /\ \E i, j \in Suppliers(n) :
                /\ i < j
                /\ KeysOf(CopyAt(i, n)) \cap KeysOf(CopyAt(j, n)) # {}
                /\ KeysOf(CopyAt(j, n)) \ KeysOf(CopyAt(i, n)) # {}
          /\ Cardinality({build_files[k].content.entries[e].text[1] :
                             e \in DOMAIN build_files[k].content.entries}) >= 2

(***************************************************************************)
(* C9  Registry merge honours the exclusion list: merge_resource_banks     *)
(* adds a resource of a dialog bank or timeline bank of a mod to the       *)
(* aggregate bank iff the file backing the resource is not in the          *)
(* exclusion list of that mod, it adds the resources in the priority order *)
(* of the mods, and it puts the bank file on the exclusion list of the     *)
(* mod.                                                                    *)
(***************************************************************************)
BankFilesAt(i) == {f \in Range(ModFiles(ModAt(i))) : IsBankFile(f)}

TimesAdded(bank, mod_uuid, r) ==
    Cardinality({k \in DOMAIN bank :
                    bank[k] = [origin |-> "bank", mod_uuid |-> mod_uuid,
                               dialog_uuid |-> r.dialog_uuid, source_file |-> r.SourceFile]})

Excluded(mod_uuid, f) ==
    is_in_exclusion_list(conflicting_files, mod_uuid, Replace(f, <<"/">>, <<"\\">>))

\* the positions in the priority order of the mods of the resources taken from banks
BankOrigins(bank) ==
    LET taken == SelectSeq(bank, LAMBDA e : e.origin = "bank")
    IN [k \in DOMAIN taken |->
           CHOOSE i \in DOMAIN mod_priority_order : ModAt(i).mod_uuid = taken[k].mod_uuid]

Ascending(s) == \A a, b \in DOMAIN s : a < b => s[a] <= s[b]

C9_BanksHonourExclusions ==
    (pc \in {"merge_overlapping_files", "copy_mod_files", "build", "resolved", "failed"}
         /\ settings.method = MERGE) =>
        /\ \A i \in DOMAIN mod_priority_order :
           \A f \in BankFilesAt(i) :
              LET doc == paks[ModAt(i).pak].xml[f]
                  mod_uuid == ModAt(i).mod_uuid
                  bundle(r) == get_content_bundle(paks[ModAt(i).pak], r.dialog_uuid)
              IN /\ Recorded(mod_uuid, f)
                 /\ \A k \in DOMAIN doc.dialog_resources :
                       TimesAdded(dialog_bank, mod_uuid, doc.dialog_resources[k]) =
                           IF Excluded(mod_uuid, bundle(doc.dialog_resources[k]).dialog_file)
                           THEN 0 ELSE 1
                 /\ \A k \in DOMAIN doc.timeline_resources :
                       TimesAdded(timeline_bank, mod_uuid, doc.timeline_resources[k]) =
                           IF Excluded(mod_uuid, bundle(doc.timeline_resources[k]).timeline_file)
                           THEN 0 ELSE 1
        /\ Ascending(BankOrigins(dialog_bank))
        /\ Ascending(BankOrigins(timeline_bank))

\* a bank of a mod with a .lsj source of which one resource was skipped and
\* one was added, after a mod of higher priority had a resource added
C9_Witness ==
    /\ pc = "resolved"
    /\ settings.method = MERGE
    /\ \E i \in DOMAIN mod_priority_order :
       \E f \in BankFilesAt(i) :
          LET doc == paks[ModAt(i).pak].xml[f]
              mod_uuid == ModAt(i).mod_uuid
          IN /\ \E k \in DOMAIN doc.dialog_resources :
                   /\ TimesAdded(dialog_bank, mod_uuid, doc.dialog_resources[k]) = 0
                   /\ Last(doc.dialog_resources[k].SourceFile) = ".lsj"
             /\ \E k \in DOMAIN doc.dialog_resources :
                   TimesAdded(dialog_bank, mod_uuid, doc.dialog_resources[k]) = 1
             /\ \E j \in DOMAIN mod_priority_order :
                   /\ j < i
                   /\ \E e \in Range(dialog_bank) :
                         e.origin = "bank" /\ e.mod_uuid = ModAt(j).mod_uuid

(***************************************************************************)
(* C11  Exclusion list lifecycle: within one resolve_conflicts run the     *)
(* exclusion list is cleared once, before any entry of the run is added,   *)
(* and is append-only afterwards: every (mod, path) entry the run added    *)
(* (the report has a line for each, line 966) is still in the list when    *)
(* the bulk-copy pass reads it.                                            *)
(***************************************************************************)
ExclusionLines == {i \in DOMAIN report : report[i].text = "added to exclusion list of mod"}

StillExcluded(line) ==
    \E u \in DOMAIN conflicting_files :
        /\ ToString(u) = line.arg[1]
        /\ Replace(Tail(line.arg), <<"/">>, <<"\\">>) \in Range(conflicting_files[u])

C11_AddedEntriesReachTheCopyPass ==
    pc = "copy_mod_files" => \A i \in ExclusionLines : StillExcluded(report[i])

(***************************************************************************)
(* C12  First-claim-wins in the exclusion list, as stated: after the merge *)
(* of a dialog that two mods ship, the dialog file of the higher-priority  *)
(* mod is recorded in that mod's exclusion list and the dialog file of the *)
(* lower-priority mod is not recorded in the lower-priority mod's list.    *)
(***************************************************************************)
BackingFileAt(i) == get_content_bundle(ContentAt(i), cur_dialog).dialog_file

RecordedUnder(i, file) ==
    /\ ModAt(i).mod_uuid \in DOMAIN conflicting_files
    /\ Replace(file, <<"/">>, <<"\\">>) \in Range(conflicting_files[ModAt(i).mod_uuid])

OwnCopy(i, n) == CHOOSE f \in MergeableFilesAt(i) : NormalisedName(f) = n

RecordedFor(mod_uuid, file) ==
    /\ mod_uuid \in DOMAIN conflicting_files
    /\ Replace(file, <<"/">>, <<"\\">>) \in Range(conflicting_files[mod_uuid])

\* the suppliers of n after the first, in priority order
LowerSuppliers(n) ==
    SelectSeq([i \in DOMAIN mod_priority_order |-> i],
              LAMBDA i : i \in Suppliers(n) /\ i # Highest(Suppliers(n)))

\* every mergeable file of every mod lies in that mod's own folder
CopiesInOwnFolder ==
    \A i \in DOMAIN mod_priority_order :
        \A f \in MergeableFilesAt(i) : f[3] = ModFolder(ModAt(i))

(***************************************************************************)
(* C13  Overlapping files are attributed to their owning mod: for every    *)
(* priority order, also one with a mod that has no pak, when each mod's    *)
(* copies lie in its own folder every copy that merge_overlapping_files    *)
(* reads is found in the package it is read from,                          *)
(* and a file the pass added to the build has its base read from the       *)
(* highest-priority mod that ships a copy and recorded in that mod's       *)
(* exclusion list, and the copies merged into it are those of the other    *)
(* mods that ship one, in priority order, each read from its own mod's     *)
(* package and recorded in that mod's exclusion list.                      *)
(***************************************************************************)
C13_OverlappingFilesAttributedToOwner ==
    (/\ pc \in {"copy_mod_files", "build", "failed", "resolved"}
     /\ settings.method = MERGE
     /\ CopiesInOwnFolder) =>
        /\ run_result.message # "FileNotFoundError: unpack"
        /\ \A k \in DOMAIN build_files :
            build_files[k].kind = "file" =>
                LET e == build_files[k]
                    n == NormalisedName(e.name)
                    lower == LowerSuppliers(n)
                IN /\ Suppliers(n) # {}
                   /\ e.base = ModAt(Highest(Suppliers(n))).mod_uuid
                   /\ e.name = OwnCopy(Highest(Suppliers(n)), n)
                   /\ RecordedFor(e.base, e.name)
                   /\ Len(e.reads) = Len(lower)
                   /\ \A r \in DOMAIN e.reads :
                         /\ e.reads[r].mod_uuid = ModAt(lower[r]).mod_uuid
                         /\ e.reads[r].file = OwnCopy(lower[r], n)
                         /\ RecordedFor(e.reads[r].mod_uuid, e.reads[r].file)

\* the number a time string writes, in units of 10^-TIMELINE_PRECISION
Scaled(val) ==
    LET d == DecimalOf([i \in DOMAIN val |-> IF val[i] = "," THEN "." ELSE val[i]])
    IN d.coef * Pow10(TIMELINE_PRECISION - d.exp)

ScaledDecimal(d) == d.coef * Pow10(TIMELINE_PRECISION - d.exp)

\* the effect components of the destination timeline with the UUID
Copies(tl, node_uuid) == {i \in DOMAIN tl.nodes : tl.nodes[i].uuid = node_uuid}

\* the diff entries merge_timeline_nodes copies an effect component for
CopiedEntries ==
    {k \in DOMAIN source_timeline_diff :
        /\ source_timeline_diff[k].state[1] \in {ADDED, MODIFIED}
        /\ source_timeline_diff[k].state[2] \notin already_changed_phases}

\* the time t of the source phase, rebased into the destination phase
Rebased(t, phase_uuid) ==
    DecimalStr([coef |-> Scaled(t)
                         - ScaledDecimal(use_existing_phase(source_timeline, phase_uuid).start)
                         + ScaledDecimal(use_existing_phase(destination_timeline, phase_uuid).start),
                exp |-> TIMELINE_PRECISION])

FaultDialog == diff_fault[1].dialog

\* the positions of the priority order whose mod ships a dialog file for d
DialogSuppliers(d) ==
    {i \in DOMAIN settings.priority_order :
        LET mi == mods[get_mod_info(mods_index, settings.priority_order[i])]
        IN /\ mi.has_content
           /\ has_content_bundle(paks[mi.pak], d)
           /\ get_content_bundle(paks[mi.pak], d).dialog_file # <<>>}

\* the entry of diff_fault is one merge_dialog_nodes handles: its dialog is
\* chosen, and its mod ships the dialog and is not the one the baseline is from
FaultIsHandled ==
    /\ diff_fault # NoFault
    /\ FaultDialog \in Range(AllChosenDialogs)
    /\ \E i, j \in DialogSuppliers(FaultDialog) :
          i < j /\ settings.priority_order[j] = diff_fault[1].mod_uuid

\* the chosen dialogs before d
DialogsBefore(d) ==
    {AllChosenDialogs[k] : k \in {k \in DOMAIN AllChosenDialogs :
                                     \A l \in 1..k : AllChosenDialogs[l] # d}}

\* the entries of the timeline diff that merge_timeline_nodes handles and that
\* carry another state than the three
UnexpectedTimelineEntries ==
    {k \in DOMAIN source_timeline_diff :
        /\ source_timeline_diff[k].state[1] \notin {ADDED, DELETED, MODIFIED}
        /\ source_timeline_diff[k].state[2] \notin already_changed_phases}

BuiltDialogs == {build_files[k].name : k \in {k \in DOMAIN build_files : build_files[k].kind = "dialog"}}

C17_FailuresBecomeStatusAndMessage ==
    /\ pc \in {"resolved", "failed", "delivered"} => run_result.kind = "return"
    /\ pc = "delivered" =>
          /\ {"status", "message"} \subseteq job_result.keys
          /\ worklog[Len(worklog)].suffix = "failure" => ~job_result.status

(***************************************************************************)
(* C18  Guaranteed report write on exit: a run of resolve_conflicts writes *)
(* no worklog while it runs, and when it has ended, by returning or by     *)
(* raising at any step, it has written one worklog with all report lines   *)
(* of the run, named success if and only if it returned (True, 'Success'). *)
(***************************************************************************)
C18_WorklogWrittenOnExit ==
    /\ pc \in {"resolve_conflicts", "resolve_setup", "merging", "merge_resource_banks",
               "merge_overlapping_files", "copy_mod_files", "build"} => worklog = <<>>
    /\ pc \in {"resolved", "failed", "delivered"} =>
          /\ Len(worklog) = 1
          /\ worklog[1].lines = report
          /\ report # <<>> /\ report[1] = Line("*** merge_mods ***", <<>>)
          /\ worklog[1].suffix \in {"success", "failure"}
          /\ worklog[1].suffix = "success" <=> run_result = Returned(TRUE, "Success")
          /\ worklog[1].suffix = "failure" <=> run_result.kind = "raise"

\* a run that raised in the copy pass, after the merge passes wrote their lines
C18_Witness ==
    /\ pc = "failed"
    /\ run_result = Raised("FileNotFoundError: unpack_pak")
    /\ worklog[1].suffix = "failure"
    /\ Len(worklog[1].lines) > 4

\* the files of the copy pass: <<i, j>> is file j of the mod at position i
CopySources ==
    UNION {{<<i, j>> : j \in DOMAIN ModFiles(ModAt(i))} : i \in DOMAIN mod_priority_order}

SrcOf(s) == UnpackedPath(ModAt(s[1]).mod_uuid, ModFiles(ModAt(s[1]))[s[2]])

DestOf(s) == DestPath(ModFiles(ModAt(s[1]))[s[2]], ResultModFolder)

\* the entries of output_files written for the source file
Writes(s) == {k \in DOMAIN output_files : output_files[k].src = SrcOf(s)}

\* a file copied before s was written to the destination of s
DestExisted(s) ==
    \E t \in CopySources :
        /\ t[1] < s[1] \/ (t[1] = s[1] /\ t[2] < s[2])
        /\ \E k \in Writes(t) : output_files[k].dest = DestOf(s)

IsStatsPath(path) == Contains(path, <<"\\", "Stats", "\\">>)

IsGoalPath(path) ==
    Contains(path, <<"\\", "Story", "\\", "RawFiles", "\\", "Goals", "\\">>) /\ Last(path) = ".txt"

Reported(text, arg) == \E k \in DOMAIN report : report[k] = Line(text, arg)

(***************************************************************************)
(* C19  Copy-time duplicates are resolved by policy, never by raising:     *)
(* after copy_mod_files, the run has not raised; no file of the output was *)
(* written twice other than by appending to it; and a source file that is  *)
(* not excluded and whose destination existed was appended to it (a path   *)
(* under \Stats\), or copied under another name (a .txt under              *)
(* \Story\RawFiles\Goals\), or not copied and reported as skipped, each    *)
(* only when the destination path selects that policy.                     *)
(***************************************************************************)
C19_DuplicatesResolvedByPolicy ==
    (pc \in {"build", "resolved", "delivered"} /\ settings.method = MERGE
       /\ run_result.kind # "raise") =>
        /\ \A k, l \in DOMAIN output_files :
              (k < l /\ output_files[k].dest = output_files[l].dest) =>
                  output_files[l].how = "merged"
        /\ \A s \in CopySources :
              (/\ ~is_in_exclusion_list(conflicting_files, ModAt(s[1]).mod_uuid, SrcOf(s))
               /\ DestExisted(s)) =>
                  LET skipped == Reported("a file already exists at destination, skipped copying",
                                          SrcOf(s))
                  IN IF IsStatsPath(DestOf(s))
                     THEN /\ Cardinality(Writes(s)) = 1
                          /\ \A k \in Writes(s) : /\ output_files[k].how = "merged"
                                                  /\ output_files[k].dest = DestOf(s)
                          /\ ~skipped
                     ELSE IF IsGoalPath(DestOf(s))
                     THEN /\ Cardinality(Writes(s)) = 1
                          /\ \A k \in Writes(s) : /\ output_files[k].how = "copied"
                                                  /\ output_files[k].dest # DestOf(s)
                                                  /\ IsGoalPath(output_files[k].dest)
                          /\ ~skipped
                     ELSE Writes(s) = {} /\ skipped

\* a copy pass in which each of the three policies was applied
C19_Witness ==
    /\ pc = "build"
    /\ \E s \in CopySources : DestExisted(s) /\ IsStatsPath(DestOf(s)) /\ Writes(s) # {}
    /\ \E s \in CopySources : DestExisted(s) /\ IsGoalPath(DestOf(s)) /\ Writes(s) # {}
    /\ \E s \in CopySources :
          /\ DestExisted(s) /\ Writes(s) = {}
          /\ ~is_in_exclusion_list(conflicting_files, ModAt(s[1]).mod_uuid, SrcOf(s))

\* a conflicts tuple with each mod_info given by its mod UUID
ByUUID(cs, ms) ==
    [g \in DOMAIN cs |-> [mods |-> [j \in DOMAIN cs[g].mods |-> ms[cs[g].mods[j]].mod_uuid],
                          dialogs |-> cs[g].dialogs]]

\* the conflicts tuple after the pak files were scanned in the order of pak_list
ConflictsOfScan(pak_list) ==
    LET st == reload_mods(modsettings, pak_list)
    IN ByUUID(detect_conflicts(st.mods, st.index), st.mods)

(***************************************************************************)
(* C20  Conflict detection is order-independent: the conflicts tuple that  *)
(* detect_conflicts produced, the order of its groups, of the mods of each *)
(* group and of the content UUIDs of each group, is the one it produces    *)
(* for every other order in which the same pak files, with the same        *)
(* content indexes, are scanned.                                           *)
(***************************************************************************)
C20_DetectionIsOrderIndependent ==
    pc = "detected" =>
        \A pak_list \in Perms(Range(paks)) : ConflictsOfScan(pak_list) = ByUUID(conflicts, mods)

\* the attribute name/value pairs of a node, without their document order
AttributePairs(node) == {AttrStr(node.attributes[i]) : i \in DOMAIN node.attributes}

\* same attribute pairs, and equal child references, flags and tagged texts
SameUpToAttributeOrder(a, b) ==
    /\ AttributePairs(a) = AttributePairs(b)
    /\ Len(a.attributes) = Len(b.attributes)
    /\ get_dialog_children(a) = get_dialog_children(b)
    /\ get_dialog_flags(a) = get_dialog_flags(b)
    /\ get_dialog_texts(a) = get_dialog_texts(b)

(***************************************************************************)
(* C23  Content equality ignores attribute order: a key whose baseline and *)
(* candidate nodes carry the same attribute name/value pairs, in whatever  *)
(* document order, and equal child references, flags and tagged texts is   *)
(* content-equal: compare_dialog_nodes is true for the two nodes and the   *)
(* set diff does not report the key.                                       *)
(***************************************************************************)
C23_AttributeOrderIgnored ==
    pc = "nodes_diff_done" =>
        \A u \in DialogKeys(original_dialog) \cap DialogKeys(modded_dialog) :
            SameUpToAttributeOrder(NodeOf(original_dialog, u), NodeOf(modded_dialog, u)) =>
                /\ compare_dialog_nodes(NodeOf(original_dialog, u), NodeOf(modded_dialog, u))
                /\ u \notin DOMAIN diff_result

IsFirst(roots, u) == roots # <<>> /\ roots[1] = u
IsLast(roots, u) == roots # <<>> /\ roots[Len(roots)] = u

\* first in both sequences, or last in both
BoundaryInBoth(u) ==
    \/ IsFirst(original_dialog.roots, u) /\ IsFirst(modded_dialog.roots, u)
    \/ IsLast(original_dialog.roots, u) /\ IsLast(modded_dialog.roots, u)

\* first in exactly one of the two sequences, or last in exactly one
BoundaryInOne(u) ==
    \/ IsFirst(original_dialog.roots, u) # IsFirst(modded_dialog.roots, u)
    \/ IsLast(original_dialog.roots, u) # IsLast(modded_dialog.roots, u)

(***************************************************************************)
(* C26  Order-diff boundary rule: a root key of both sequences is not      *)
(* reported if it is first in both or last in both, and otherwise is       *)
(* 'modified' if it is first in exactly one of them or last in exactly one *)
(* of them; a key of the baseline only is 'deleted', a key of the          *)
(* candidate only is 'added'.                                              *)
(***************************************************************************)
C26_BoundaryRule ==
    pc = "roots_diff_done" =>
        LET bk == Range(original_dialog.roots)
            ck == Range(modded_dialog.roots)
        IN /\ \A u \in bk \cap ck :
                 /\ BoundaryInBoth(u) => StateOf(diff_result, u) = "unchanged"
                 /\ ~BoundaryInBoth(u) /\ BoundaryInOne(u) => StateOf(diff_result, u) = MODIFIED
           /\ \A u \in bk \ ck : StateOf(diff_result, u) = DELETED
           /\ \A u \in ck \ bk : StateOf(diff_result, u) = ADDED
           /\ DOMAIN diff_result \subseteq bk \cup ck

\* one diff with a key that is last in both sequences, a key that is first
\* in the candidate only, a key that is first in the baseline only, a key of
\* the baseline only and a key of the candidate only
C26_Witness ==
    /\ pc = "roots_diff_done"
    /\ \E u \in Range(original_dialog.roots) \cap Range(modded_dialog.roots) :
          /\ IsLast(original_dialog.roots, u) /\ IsLast(modded_dialog.roots, u)
          /\ ~IsFirst(original_dialog.roots, u) /\ ~IsFirst(modded_dialog.roots, u)
          /\ u \notin DOMAIN diff_result
    /\ \E u \in Range(original_dialog.roots) \cap Range(modded_dialog.roots) :
          /\ ~IsFirst(original_dialog.roots, u) /\ IsFirst(modded_dialog.roots, u)
          /\ StateOf(diff_result, u) = MODIFIED
    /\ \E u \in Range(original_dialog.roots) \cap Range(modded_dialog.roots) :
          /\ IsFirst(original_dialog.roots, u) /\ ~IsFirst(modded_dialog.roots, u)
          /\ StateOf(diff_result, u) = MODIFIED
    /\ \E u \in DOMAIN diff_result : diff_result[u] = DELETED
    /\ \E u \in DOMAIN diff_result : diff_result[u] = ADDED

\* the first key after position i of the candidate that is not new in the
\* candidate, "" if there is none
FirstKeptAfter(i) ==
    LET later == {j \in (i + 1)..Len(modded_dialog.roots) :
                     modded_dialog.roots[j] \in Range(original_dialog.roots)}
    IN IF later = {} THEN ""
       ELSE modded_dialog.roots[CHOOSE j \in later : \A k \in later : j <= k]

Interior(roots, u) == u \in Range(roots) /\ ~IsFirst(roots, u) /\ ~IsLast(roots, u)

(***************************************************************************)
(* C27  Order-diff anchor walk: a root key of both sequences that is       *)
(* neither first nor last in either of them is 'modified' iff the first    *)
(* key after it in the candidate that is not new in the candidate is not   *)
(* the key's immediate successor in the baseline (none being left counts   *)
(* as not the successor); otherwise the key is not reported.               *)
(***************************************************************************)
C27_AnchorWalk ==
    pc = "roots_diff_done" =>
        \A u \in Range(original_dialog.roots) \cap Range(modded_dialog.roots) :
            Interior(original_dialog.roots, u) /\ Interior(modded_dialog.roots, u) =>
                LET successor == original_dialog.roots[IndexOf(original_dialog.roots, u) + 2]
                    kept == FirstKeptAfter(IndexOf(modded_dialog.roots, u) + 1)
                IN /\ StateOf(diff_result, u) \in {MODIFIED, "unchanged"}
                   /\ StateOf(diff_result, u) = MODIFIED <=> kept # successor

\* an interior key whose walk skips a new key and finds its old successor,
\* next to an interior key whose walk ends at another key
C27_Witness ==
    /\ pc = "roots_diff_done"
    /\ \E u \in Range(original_dialog.roots) \cap Range(modded_dialog.roots) :
          /\ Interior(original_dialog.roots, u) /\ Interior(modded_dialog.roots, u)
          /\ modded_dialog.roots[IndexOf(modded_dialog.roots, u) + 2] \notin Range(original_dialog.roots)
          /\ u \notin DOMAIN diff_result
    /\ \E u \in Range(original_dialog.roots) \cap Range(modded_dialog.roots) :
          /\ Interior(original_dialog.roots, u) /\ Interior(modded_dialog.roots, u)
          /\ StateOf(diff_result, u) = MODIFIED

\* the mods whose root-order diff has an entry for the key k
RootTouchers(k) == {i \in DialogMods : k \in DOMAIN RootDiffAt(i)}

\* the mods whose root-order entry for k the merge applied to the result
RootAppliers(k) == {e[1] : e \in {x \in applied_root_entries : x[2] = k}}

(***************************************************************************)
(* C24  Root-order entries follow the claim discipline across all mods:    *)
(* at the end of merge_conflicting_dialogs, for any number of mods, the    *)
(* order entry of a root key was applied to the result from at most one    *)
(* mod, and from none if the first source's order diff has the key; so a   *)
(* root that the highest-priority mod with an entry for it removed is not  *)
(* among the roots of the result.                                          *)
(***************************************************************************)
C24_RootClaimsHoldAcrossMods ==
    pc = "merged" /\ result_dialog # <<>> =>
        \A k \in MergeKeys :
            /\ Cardinality(RootAppliers(k)) <= 1
            /\ k \in DOMAIN BaselineRootDiff => RootAppliers(k) = {}
            /\ RootTouchers(k) # {} /\ RootDiffAt(Highest(RootTouchers(k)))[k] = DELETED =>
                   k \notin Range(result_dialog[1].roots)

(***************************************************************************)
(* Specification SpecPhases: the timeline part of the loop of              *)
(* merge_conflicting_dialogs (lines 888-924), one step per mod, for three  *)
(* mods in priority order.  The vanilla timeline has the phases P0 and P1  *)
(* and the effects E1..En; a mod ships no timeline, or the vanilla one     *)
(* with every effect kept, moved to the offset of the mod, or deleted.     *)
(* destination_timeline is result_timeline, already_changed_phases is      *)
(* changed_phases.                                                         *)
(***************************************************************************)
LayeredMods == 1..3

LayerOffsets ==
    << <<"1", "2", ".", "3", "4", "0", "0">>, <<"1", "2", ".", "3", "4">>, <<"1", "1">> >>

VanillaStart == <<"1", ".", "0", "0", "0", "0">>

KEPT == "kept"

EffectEdits == {KEPT, MODIFIED, DELETED}

TimelinePhases ==
    <<[uuid |-> "P0", duration |-> PhaseDuration], [uuid |-> "P1", duration |-> PhaseDuration]>>

RECURSIVE LayerNodes(_, _, _)
LayerNodes(i, e, k) ==
    IF k > NumEffects THEN <<>>
    ELSE (IF e[k] = DELETED THEN <<>>
          ELSE <<[uuid |-> EffectUUID(k), phase |-> EffectPhase(k),
                  start |-> IF e[k] = MODIFIED THEN LayerOffsets[i] ELSE VanillaStart,
                  end |-> EffectEnd]>>)
         \o LayerNodes(i, e, k + 1)

\* t_differ.get_modified_timeline_nodes of the timeline of mod i: an entry
\* 'state|phase' per effect the mod moved or deleted
RECURSIVE LayerDiff(_, _)
LayerDiff(e, k) ==
    IF k > NumEffects THEN <<>>
    ELSE (IF e[k] = KEPT THEN <<>>
          ELSE <<[key |-> EffectUUID(k), state |-> <<e[k], EffectPhase(k)>>]>>)
         \o LayerDiff(e, k + 1)

VanillaTimeline == [phases |-> TimelinePhases, nodes |-> LayerNodes(1, [k \in 1..NumEffects |-> KEPT], 1)]

\* the content bundle of mod i and what its timeline file holds
NoLayer == <<>>

LayerOf(i, c) ==
    IF c = NoLayer
    THEN [mod_uuid |-> i, timeline_file |-> <<>>, timeline |-> NoTimeline, diff |-> <<>>]
    ELSE [mod_uuid |-> i, timeline_file |-> TimelineFile(i, MergedDialog),
          timeline |-> [phases |-> TimelinePhases, nodes |-> LayerNodes(i, c, 1)],
          diff |-> LayerDiff(c, 1)]

LayerChoices == {NoLayer} \cup [1..NumEffects -> EffectEdits]

PhasesOfDiff(diff) == {diff[k].state[2] : k \in DOMAIN diff}

InitPhases ==
    /\ pc = "timeline_loop"
    /\ DiffIdle
    /\ ScanIdle
    /\ mod_priority_order = <<>>
    /\ cur_dialog = MergedDialog
    /\ result_dialog = <<>>
    /\ dialog_nodes_diff = NoDiff
    /\ root_nodes_diff = NoDiff
    /\ result_timeline = <<>>
    /\ conflicting_files = NoExclusions
    /\ applied_root_entries = {}
    /\ settings = <<>>
    /\ dialog_queue = <<>>
    /\ build_files = <<>>
    /\ dialog_bank = <<>>
    /\ timeline_bank = <<>>
    /\ output_files = <<>>
    /\ report = <<>>
    /\ worklog = <<>>
    /\ run_result = NoResult
    /\ job_result = NoJobResult
    /\ diff_fault = NoFault
    /\ source_timeline = NoTimeline
    /\ destination_timeline = NoTimeline
    /\ source_timeline_diff = <<>>
    /\ already_changed_phases = {}
    /\ ui = <<>>
    /\ runner = <<>>
    /\ PAK_KEYS = <<>>
    /\ PAK_CACHE = <<>>
    /\ pak_stat = <<>>
    /\ package = <<>>
    /\ \E c \in [LayeredMods -> LayerChoices] :
          timeline_loop = [sources |-> [i \in LayeredMods |-> LayerOf(i, c[i])], next |-> 1]

\* lines 888-909: result_timeline is None, the timeline of the first mod or
\* the vanilla one becomes the result
BaselineTimeline ==
    /\ pc = "timeline_loop"
    /\ result_timeline = <<>>
    /\ timeline_loop.next \in DOMAIN timeline_loop.sources
    /\ LET s == timeline_loop.sources[timeline_loop.next]
       IN IF s.timeline_file # <<>>
          THEN /\ report' = report
                      \o <<Line("baseline timeline is taken from mod", <<cur_dialog, ToString(s.mod_uuid)>>),
                           ExclusionLine(s.mod_uuid, Replace(s.timeline_file, <<"/">>, <<"\\">>))>>
               /\ conflicting_files' = append_to_exclusion_list(conflicting_files, s.mod_uuid, s.timeline_file)
               /\ destination_timeline' = s.timeline
               /\ result_timeline' = <<s.mod_uuid>>
               /\ already_changed_phases' = already_changed_phases \cup PhasesOfDiff(s.diff)
          ELSE /\ report' = Append(report, Line("baseline timeline is taken from the vanilla game", <<cur_dialog>>))
               /\ conflicting_files' = conflicting_files
               /\ destination_timeline' = VanillaTimeline
               /\ result_timeline' = <<0>>
               /\ already_changed_phases' = already_changed_phases
    /\ timeline_loop' = [timeline_loop EXCEPT !.next = @ + 1]
    /\ pc' = "timeline_loop"
    /\ UNCHANGED <<source_timeline, source_timeline_diff, diff_fault>>
    /\ UNCHANGED <<mod_priority_order, cur_dialog, result_dialog, dialog_nodes_diff,
                   root_nodes_diff, applied_root_entries>>
    /\ UNCHANGED <<worklog, run_result, job_result>>
    /\ UNCHANGED resolveVars
    /\ UNCHANGED buildVars
    /\ UNCHANGED diffVars
    /\ UNCHANGED scanVars
    /\ UNCHANGED hostVars
    /\ UNCHANGED pakVars

\* lines 910-923: the timeline of the next mod is read and diffed for the call
\* of merge_timeline_nodes at line 924; a mod without one is passed over
NextTimelineSource ==
    /\ pc \in {"timeline_loop", "timeline_merged"}
    /\ result_timeline # <<>>
    /\ timeline_loop.next \in DOMAIN timeline_loop.sources
    /\ LET s == timeline_loop.sources[timeline_loop.next]
       IN IF s.timeline_file # <<>>
          THEN LET scene == Replace(s.timeline_file, <<".lsf">>, <<"_Scene", ".lsf">>)
               IN /\ report' = report
                         \o <<Line("merging timeline from mod", <<cur_dialog, ToString(s.mod_uuid)>>),
                              ExclusionLine(s.mod_uuid, Replace(s.timeline_file, <<"/">>, <<"\\">>)),
                              ExclusionLine(s.mod_uuid, Replace(scene, <<"/">>, <<"\\">>))>>
                  /\ conflicting_files' =
                         append_to_exclusion_list(
                             append_to_exclusion_list(conflicting_files, s.mod_uuid, s.timeline_file),
                             s.mod_uuid, scene)
                  /\ source_timeline' = s.timeline
                  /\ source_timeline_diff' = s.diff
                  /\ pc' = "merge_timeline_nodes"
          ELSE /\ UNCHANGED <<report, conflicting_files, source_timeline, source_timeline_diff>>
               /\ pc' = "timeline_loop"
    /\ timeline_loop' = [timeline_loop EXCEPT !.next = @ + 1]
    /\ UNCHANGED <<destination_timeline, already_changed_phases, diff_fault>>
    /\ UNCHANGED <<mod_priority_order, cur_dialog, result_dialog, dialog_nodes_diff,
                   root_nodes_diff, result_timeline, applied_root_entries>>
    /\ UNCHANGED <<worklog, run_result, job_result>>
    /\ UNCHANGED resolveVars
    /\ UNCHANGED buildVars
    /\ UNCHANGED diffVars
    /\ UNCHANGED scanVars
    /\ UNCHANGED hostVars
    /\ UNCHANGED pakVars

\* lines 932-938: the loop is over, the result goes to the build and the bank
FinishTimelineLoop ==
    /\ pc \in {"timeline_loop", "timeline_merged"}
    /\ timeline_loop # NoLoop
    /\ timeline_loop.next \notin DOMAIN timeline_loop.sources
    /\ build_files' = build_files
           \o <<[kind |-> "timeline", name |-> cur_dialog, content |-> result_timeline[1]]>>
    /\ timeline_bank' = timeline_bank
           \o <<[origin |-> "merge", mod_uuid |-> result_timeline[1],
                 dialog_uuid |-> cur_dialog, source_file |-> <<>>]>>
    /\ report' = report
           \o <<Line("added timeline to the build", <<cur_dialog>>),
                Line("added timeline to the timeline bank", <<cur_dialog>>),
                Line("finished resolving conflicts in dialog and timeline", <<cur_dialog>>)>>
    /\ pc' = "merged"
    /\ UNCHANGED dialog_bank
    /\ UNCHANGED timeline_loop
    /\ UNCHANGED tlVars
    /\ UNCHANGED diff_fault
    /\ UNCHANGED <<mod_priority_order, cur_dialog, result_dialog, dialog_nodes_diff,
                   root_nodes_diff, result_timeline, conflicting_files, applied_root_entries>>
    /\ UNCHANGED <<worklog, run_result, job_result>>
    /\ UNCHANGED resolveVars
    /\ UNCHANGED diffVars
    /\ UNCHANGED scanVars
    /\ UNCHANGED hostVars
    /\ UNCHANGED pakVars

NextPhases ==
    \/ BaselineTimeline
    \/ NextTimelineSource
    \/ MergeTimelineNodes
    \/ FinishTimelineLoop

SpecPhases == InitPhases /\ [][NextPhases]_vars

\* the mods of the loop that came before the one merge_timeline_nodes is
\* called for, and the phases their timelines changed
HigherSources == 1..(timeline_loop.next - 2)

PhasesChangedByHigher ==
    UNION {PhasesOfDiff(timeline_loop.sources[i].diff) : i \in HigherSources}

SkippedLine(entry) ==
    Line("timeline phase is already changed in higher priority mod, skipped timeline node",
         <<entry.state[2], entry.key>>)

(***************************************************************************)
(* C25  Phase-level claims: in every call of merge_timeline_nodes of the   *)
(* loop, every entry of the diff of the mod whose phase was changed by a   *)
(* mod of higher priority, the baseline one or one layered later, is       *)
(* skipped: the call reports it as skipped.                                *)
(***************************************************************************)
C25_ChangedPhasesAreClaimed ==
    [][pc = "merge_timeline_nodes" /\ timeline_loop # NoLoop =>
          \A k \in DOMAIN source_timeline_diff :
              source_timeline_diff[k].state[2] \in PhasesChangedByHigher =>
                  \E n \in (Len(report) + 1)..Len(report') :
                      report'[n] = SkippedLine(source_timeline_diff[k])]_vars

(***************************************************************************)
(* Specification SpecInstall: resolve_conflicts with and without           *)
(* install_when_done, for both methods, on mods that ship the dialog d1 or *)
(* nothing, followed or not by the scan job of the UI (reload_mods, then   *)
(* detect_conflicts).                                                      *)
(***************************************************************************)
InitInstall ==
    /\ ResolveEntry
    /\ \E c \in [ModUUIDs -> {<<>>, <<"d1">>}], install \in BOOLEAN :
          ResolveInputWith([i \in ModUUIDs |-> DialogPak(i, c[i])], install)
    /\ settings.priority_order = [i \in ModUUIDs |-> i]
    /\ diff_fault = NoFault
    /\ AuxIdle

\* MainWindow.__scan_mods, lines 425-440: the job that calls reload_mods and
\* detect_conflicts is started once the result of the run was delivered
ScanMods ==
    /\ pc = "delivered"
    /\ pc' = "reload_mods"
    /\ UNCHANGED scanVars
    /\ UNCHANGED diffVars
    /\ UNCHANGED mergeVars
    /\ UNCHANGED resolveVars
    /\ UNCHANGED buildVars
    /\ UNCHANGED runVars
    /\ UNCHANGED tlVars
    /\ UNCHANGED diff_fault
    /\ UNCHANGED timeline_loop
    /\ UNCHANGED hostVars
    /\ UNCHANGED pakVars

NextInstall ==
    \/ ResolveStart
    \/ ResolveClear
    \/ ResolveMergeDialog
    \/ ResolveExclusions
    \/ MergeResourceBanks
    \/ MergeOverlappingFiles
    \/ CopyModFiles
    \/ Build
    \/ RunnerDeliver
    \/ ScanMods
    \/ ReloadMods
    \/ DetectConflicts

SpecInstall == InitInstall /\ [][NextInstall]_vars

\* get_mod_info(mod_uuid) returns the mod_info at position i of mod_list
LooksUp(i) ==
    /\ mods[i].mod_uuid \in DOMAIN mods_index
    /\ get_mod_info(mods_index, mods[i].mod_uuid) = i

(***************************************************************************)
(* C29  Mod index consistency: at every point of a sequence of             *)
(* reload_mods, detect_conflicts and resolve_conflicts calls, runs with    *)
(* install_when_done included, get_mod_info finds every mod of mod_list    *)
(* and every mod of a group of conflicts, and returns that mod_info.       *)
(***************************************************************************)
C29_IndexCoversModsAndConflicts ==
    /\ \A i \in DOMAIN mods : LooksUp(i)
    /\ \A g \in DOMAIN conflicts : \A j \in DOMAIN conflicts[g].mods :
          /\ conflicts[g].mods[j] \in DOMAIN mods
          /\ LooksUp(conflicts[g].mods[j])

(***************************************************************************)
(* bg3_modding_tool: the package cache.  A Python dict is a function; a    *)
(* pak file on disk is pak_stat[path] = [isfile, st_mtime, files,          *)
(* readable], readable being whether PackageReader.Read succeeds.  An      *)
(* entry of PAK_CACHE is [files, read_at]: the files of the package and    *)
(* the modification time the pak file had when it was read.                *)
(***************************************************************************)
MaxMtime == 2         \* modification times a pak file goes through

PakPaths == {"A.pak", "B.pak"}
Mtimes == 1..MaxMtime
PakContents == {<<"meta.lsx">>, <<"meta.lsx", "d1.lsf">>}
Targets == {"meta.lsx", "d1.lsf"}

PakStats == [isfile : BOOLEAN, st_mtime : Mtimes, files : PakContents, readable : BOOLEAN]

NoPackage == [kind |-> "none"]

Without(f, k) == [x \in DOMAIN f \ {k} |-> f[x]]

\* mutant: the key of a cache entry is the pak path alone
PakKeyOfPath(pak_path, st_mtime) == <<pak_path, "|">>

\* line 74: key = pak_path + '|' + str(os.stat(pak_path).st_mtime)
PakKey(pak_path, st_mtime) == <<pak_path, "|", st_mtime>>

\* __get_package, lines 71-97; the result is [keys, cache, package], package
\* being what the call returns or the exception that leaves it
get_package(keys, cache, stat, pak_path) ==
    IF ~stat[pak_path].isfile
    THEN [keys |-> keys, cache |-> cache,
          package |-> [kind |-> "FileNotFoundError", path |-> pak_path]]
    ELSE LET key == PakKey(pak_path, stat[pak_path].st_mtime)
         IN IF key \notin DOMAIN cache
            THEN IF pak_path \in DOMAIN keys /\ keys[pak_path] \notin DOMAIN cache
                 THEN [keys |-> keys, cache |-> cache,
                       package |-> [kind |-> "KeyError", path |-> pak_path]]
                 ELSE LET known == pak_path \in DOMAIN keys
                          keys1 == IF known THEN Without(keys, pak_path) ELSE keys
                          cache1 == IF known THEN Without(cache, keys[pak_path]) ELSE cache
                          pak_files == [files |-> stat[pak_path].files,
                                        read_at |-> stat[pak_path].st_mtime]
                      IN IF stat[pak_path].readable
                         THEN [keys |-> (pak_path :> key) @@ keys1,
                               cache |-> (key :> pak_files) @@ cache1,
                               package |-> [kind |-> "files", path |-> pak_path,
                                            files |-> pak_files.files,
                                            read_at |-> pak_files.read_at,
                                            st_mtime |-> stat[pak_path].st_mtime,
                                            cached |-> FALSE, evicted |-> known]]
                         ELSE [keys |-> keys1, cache |-> cache1,
                               package |-> [kind |-> "RuntimeError", path |-> pak_path,
                                            evicted |-> known]]
            ELSE [keys |-> keys, cache |-> cache,
                  package |-> [kind |-> "files", path |-> pak_path,
                               files |-> cache[key].files,
                               read_at |-> cache[key].read_at,
                               st_mtime |-> stat[pak_path].st_mtime,
                               cached |-> TRUE, evicted |-> FALSE]]

(***************************************************************************)
(* Specification SpecCache: list and unpack calls on two pak paths whose   *)
(* files are created, rewritten, damaged and removed between the calls.    *)
(***************************************************************************)
InitCache ==
    /\ pc = "tool"
    /\ DiffIdle
    /\ ScanIdle
    /\ mod_priority_order = <<>>
    /\ cur_dialog = ""
    /\ result_dialog = <<>>
    /\ dialog_nodes_diff = NoDiff
    /\ root_nodes_diff = NoDiff
    /\ result_timeline = <<>>
    /\ conflicting_files = NoExclusions
    /\ applied_root_entries = {}
    /\ settings = <<>>
    /\ dialog_queue = <<>>
    /\ build_files = <<>>
    /\ dialog_bank = <<>>
    /\ timeline_bank = <<>>
    /\ output_files = <<>>
    /\ report = <<>>
    /\ worklog = <<>>
    /\ run_result = NoResult
    /\ job_result = NoJobResult
    /\ diff_fault = NoFault
    /\ source_timeline = NoTimeline
    /\ destination_timeline = NoTimeline
    /\ source_timeline_diff = <<>>
    /\ already_changed_phases = {}
    /\ timeline_loop = NoLoop
    /\ ui = <<>>
    /\ runner = <<>>
    /\ PAK_KEYS = <<>>
    /\ PAK_CACHE = <<>>
    /\ pak_stat \in [PakPaths -> PakStats]
    /\ package = NoPackage

CacheFrame ==
    /\ UNCHANGED pc
    /\ UNCHANGED diffVars
    /\ UNCHANGED scanVars
    /\ UNCHANGED mergeVars
    /\ UNCHANGED resolveVars
    /\ UNCHANGED buildVars
    /\ UNCHANGED runVars
    /\ UNCHANGED tlVars
    /\ UNCHANGED diff_fault
    /\ UNCHANGED timeline_loop
    /\ UNCHANGED hostVars

\* bg3_modding_tool.list, lines 136-149: every exception of __get_package
\* leaves list as RuntimeError
ListPak ==
    /\ pc = "tool"
    /\ \E pak_name \in PakPaths :
          IF ~pak_stat[pak_name].isfile
          THEN /\ package' = [kind |-> "FileNotFoundError", path |-> pak_name]
               /\ UNCHANGED <<PAK_KEYS, PAK_CACHE>>
          ELSE LET st == get_package(PAK_KEYS, PAK_CACHE, pak_stat, pak_name)
               IN /\ PAK_KEYS' = st.keys
                  /\ PAK_CACHE' = st.cache
                  /\ package' = IF st.package.kind = "files" THEN st.package
                                ELSE [st.package EXCEPT !.kind = "RuntimeError"]
    /\ UNCHANGED pak_stat
    /\ CacheFrame

\* bg3_modding_tool.unpack, lines 151-190: the target is looked up in the
\* package __get_package returns
UnpackPak ==
    /\ pc = "tool"
    /\ \E pak_name \in PakPaths, target \in Targets :
          LET st == get_package(PAK_KEYS, PAK_CACHE, pak_stat, pak_name)
          IN /\ PAK_KEYS' = st.keys
             /\ PAK_CACHE' = st.cache
             /\ package' = IF st.package.kind = "files" /\ target \notin Range(st.package.files)
                           THEN [kind |-> "FileNotFoundError", path |-> pak_name]
                           ELSE st.package
    /\ UNCHANGED pak_stat
    /\ CacheFrame

\* the pak file is written anew, damaged or not, by the mod manager of the
\* user or by install_mod (shutil.copy2 keeps the modification time)
ModifyPak ==
    /\ pc = "tool"
    /\ \E pak_name \in PakPaths, stat \in PakStats :
          /\ stat.isfile
          /\ stat # pak_stat[pak_name]
          /\ pak_stat' = [pak_stat EXCEPT ![pak_name] = stat]
    /\ UNCHANGED <<PAK_KEYS, PAK_CACHE, package>>
    /\ CacheFrame

\* os.unlink of the pak file (uninstall_mod line 160)
RemovePak ==
    /\ pc = "tool"
    /\ \E pak_name \in PakPaths :
          /\ pak_stat[pak_name].isfile
          /\ pak_stat' = [pak_stat EXCEPT ![pak_name].isfile = FALSE]
    /\ UNCHANGED <<PAK_KEYS, PAK_CACHE, package>>
    /\ CacheFrame

NextCache ==
    \/ ListPak
    \/ UnpackPak
    \/ ModifyPak
    \/ RemovePak

SpecCache == InitCache /\ [][NextCache]_vars

(***************************************************************************)
(* C30  Package cache coherence: whatever list and unpack calls, rewrites  *)
(* of pak files and failed reads came before, PAK_CACHE has at most one    *)
(* entry per pak path, every key PAK_KEYS names is an entry of PAK_CACHE,  *)
(* and the package a lookup returns was read at the modification time the  *)
(* pak file has at the lookup.                                             *)
(***************************************************************************)
C30_PackageCacheCoherent ==
    /\ \A k1 \in DOMAIN PAK_CACHE, k2 \in DOMAIN PAK_CACHE : k1[1] = k2[1] => k1 = k2
    /\ \A p \in DOMAIN PAK_KEYS : PAK_KEYS[p] \in DOMAIN PAK_CACHE
    /\ package.kind = "files" => package.read_at = package.st_mtime

\* a lookup read a pak file anew after it was rewritten and dropped the entry
\* of the old modification time, the other pak being cached too
C30_Witness ==
    /\ package.kind = "files"
    /\ package.evicted
    /\ package.read_at = MaxMtime
    /\ DOMAIN PAK_KEYS = PakPaths

(***************************************************************************)
(* The host application: MainWindow (_wxapp.py) and Runner (_runner.py).   *)
(* ui holds the fields and widgets of the window that the handlers read    *)
(* and write: state, g (self.__g is not None), shown, closed, splash, wait *)
(* (the PleaseWait frame is visible), the five buttons of wait mode (TRUE: *)
(* enabled), show_all_mods, select_all, the check list (items: the names   *)
(* shown; checked: positions; selection: a position, 0 for NOT_FOUND), the *)
(* priority choices (the mod of each and whether the user chose it) and,   *)
(* of the last handler, the exception that left it and the conflicts it    *)
(* looked up by check list position.  Positions count from 1: position k   *)
(* is the Python index k - 1.                                              *)
(* runner holds the two queues, the job the thread is running with the     *)
(* position of the thread in it, the number of run_job calls and, of the   *)
(* job that ended last, the number of messages put on the results queue.   *)
(***************************************************************************)
MaxJobs == 3          \* run_job calls of a session, the initialisation included

NoJob == [id |-> 0, kind |-> "none"]

InitialUI ==
    [state |-> 0, g |-> FALSE, shown |-> FALSE, closed |-> FALSE, splash |-> FALSE,
     wait |-> FALSE,
     scan_mods_button |-> FALSE, select_all_button |-> FALSE, show_all_mods_button |-> FALSE,
     merge_button |-> FALSE, patch_button |-> FALSE,
     show_all_mods |-> FALSE, select_all |-> TRUE,
     items |-> <<>>, checked |-> {}, selection |-> 0,
     choices |-> <<>>, error |-> "", lookups |-> {}]

NoPut == [id |-> 0, kind |-> "none", raised |-> FALSE, n |-> 0]

InitialRunner ==
    [jobs |-> <<>>, results |-> <<>>, current |-> NoJob, at |-> "get", submitted |-> 0,
     put |-> NoPut, stopped |-> FALSE]

\* mod_conflict.is_conflict and get_conflict_name (lines 71-78): the name lists
\* the mods of the group
is_conflict(c) == Len(c.mods) > 1

get_conflict_name(c) ==
    <<IF is_conflict(c) THEN "CONFLICT" ELSE "MOD">>
        \o [j \in DOMAIN c.mods |-> ToString(mods[c.mods[j]].mod_uuid)]

\* Runner.run_job, lines 31-32
run_job(r, kind) ==
    [r EXCEPT !.jobs = Append(@, [id |-> r.submitted + 1, kind |-> kind]),
              !.submitted = @ + 1]

\* the messages put on the results queue for a job, counted when the job ends
PutForJob(r, job, outcome, put) ==
    [r EXCEPT !.results = @ \o put,
              !.put = [id |-> job.id, kind |-> job.kind, raised |-> outcome = "raise",
                       n |-> Len(put)]]

Message(result) == [result |-> result, error |-> FALSE]

ErrorMessage == [result |-> "", error |-> TRUE]

\* mutant: the thread puts nothing when the job raised
thread_proc_put_returns(r, job, outcome, messages) ==
    PutForJob(r, job, outcome, IF outcome = "raise" THEN <<>> ELSE messages)

\* Runner.__thread_proc, lines 51-56: the value the job returned, or the
\* error and its traceback, is put on the results queue, after the messages
\* the job itself added with Runner.add_result (line 40)
thread_proc_put(r, job, outcome, messages) ==
    PutForJob(r, job, outcome, IF outcome = "raise" THEN <<ErrorMessage>> ELSE messages)

\* the checked positions in ascending order: GetCheckedItems()
CheckedItems(u) == SortNat(CHOOSE s \in Perms(u.checked) : TRUE)

\* what a handler finds in conflicts at a check list position: nothing, the
\* conflict whose name the list shows at the position, or another one
LookUp(u, cs, position) ==
    IF position \notin DOMAIN cs THEN "IndexError"
    ELSE IF position \in DOMAIN u.items /\ u.items[position] = get_conflict_name(cs[position])
    THEN "displayed"
    ELSE "other"

\* __can_patch, lines 374-383: [value, error, lookups]
RECURSIVE CanPatchFrom(_, _, _, _)
CanPatchFrom(u, cs, checked, seen) ==
    IF checked = <<>> THEN [value |-> FALSE, error |-> "", lookups |-> seen]
    ELSE LET here == seen \cup {LookUp(u, cs, checked[1])}
         IN IF checked[1] \notin DOMAIN cs
            THEN [value |-> FALSE, error |-> "IndexError", lookups |-> here]
            ELSE IF is_conflict(cs[checked[1]])
            THEN [value |-> TRUE, error |-> "", lookups |-> here]
            ELSE CanPatchFrom(u, cs, Tail(checked), here)

can_patch(u, cs) ==
    IF ~u.g THEN [value |-> FALSE, error |-> "", lookups |-> {}]
    ELSE CanPatchFrom(u, cs, CheckedItems(u), {})

\* __can_merge, lines 385-386
can_merge(u, cs) ==
    LET p == can_patch(u, cs)
    IN [p EXCEPT !.value = p.error = "" /\ (p.value \/ Cardinality(u.checked) > 1)]

\* merge_button.Enable(__can_merge()); patch_button.Enable(__can_patch()): an
\* exception of the first leaves both buttons as they are
EnableMergeAndPatch(u, cs) ==
    LET m == can_merge(u, cs)
        p == can_patch(u, cs)
    IN IF m.error # ""
       THEN [u EXCEPT !.error = m.error, !.lookups = @ \cup m.lookups]
       ELSE [u EXCEPT !.merge_button = m.value, !.patch_button = p.value,
                      !.lookups = @ \cup m.lookups]

\* the conflicts the list shows for the mode: __populate_conflicts line 465
Listed(u, cs) == SelectSeq(cs, LAMBDA c : is_conflict(c) \/ u.show_all_mods)

\* the mods of the listed conflicts that are checked, each once, in order
RECURSIVE SelectedMods(_, _, _, _)
SelectedMods(u, listed, n, acc) ==
    IF n > Len(listed) THEN acc
    ELSE IF n \notin u.checked THEN SelectedMods(u, listed, n + 1, acc)
    ELSE SelectedMods(u, listed, n + 1,
                      acc \o SelectSeq([j \in DOMAIN listed[n].mods |-> mods[listed[n].mods[j]].mod_uuid],
                                       LAMBDA m : m \notin Range(acc)))

\* __populate_conflict_info, lines 478-556: the priority choices are made
\* anew, one per mod of the checked conflicts, none of them chosen
populate_conflict_info(u, cs) ==
    IF ~u.g \/ Len(cs) = 0 THEN u
    ELSE LET selected_mods == SelectedMods(u, Listed(u, cs), 1, <<>>)
         IN [u EXCEPT !.choices = [i \in DOMAIN selected_mods |->
                                      [mod |-> selected_mods[i], chosen |-> 0]]]

\* __populate_conflicts, lines 460-469
populate_conflicts(u, cs) ==
    IF ~u.g THEN u
    ELSE LET listed == Listed(u, cs)
         IN populate_conflict_info(
                [u EXCEPT !.items = [i \in DOMAIN listed |-> get_conflict_name(listed[i])],
                          !.checked = {},
                          !.selection = 0],
                cs)

\* __enter_wait_mode, lines 388-394
enter_wait_mode(u) ==
    [u EXCEPT !.wait = TRUE, !.scan_mods_button = FALSE, !.select_all_button = FALSE,
              !.show_all_mods_button = FALSE, !.merge_button = FALSE, !.patch_button = FALSE]

\* __exit_wait_mode, lines 396-402
exit_wait_mode(u, cs) ==
    EnableMergeAndPatch([u EXCEPT !.wait = FALSE, !.scan_mods_button = TRUE,
                                  !.select_all_button = Len(u.items) > 0,
                                  !.show_all_mods_button = TRUE],
                        cs)

\* a handler starts: nothing raised, nothing looked up yet
Handling(u) == [u EXCEPT !.error = "", !.lookups = {}]
\* on_guidance_created, lines 199-208
on_guidance_created(u, cs) ==
    LET enabled == EnableMergeAndPatch([u EXCEPT !.splash = FALSE, !.scan_mods_button = TRUE,
                                                 !.select_all_button = Len(u.items) > 0,
                                                 !.show_all_mods_button = TRUE],
                                       cs)
    IN IF enabled.error # "" THEN enabled ELSE [enabled EXCEPT !.shown = TRUE]

\* on_scan_mods_done, lines 210-217
on_scan_mods_done(u, cs) ==
    LET populated == populate_conflicts(u, cs)
        left == exit_wait_mode([populated EXCEPT !.select_all_button = Len(populated.items) > 0],
                               cs)
        p == can_patch(left, cs)
    IN IF left.error # "" THEN left
       ELSE IF p.error # "" THEN [left EXCEPT !.error = p.error, !.lookups = @ \cup p.lookups]
       ELSE [left EXCEPT !.patch_button = p.value, !.lookups = @ \cup p.lookups]

\* on_guidance_done, lines 219-235
on_guidance_done(u, cs) == exit_wait_mode([u EXCEPT !.checked = {}], cs)

\* __create_settings, lines 558-629: the message it returns, the exception
\* it raises, or "settings"; ok is the button that ends ModMetadataDialog
create_settings(u, idx, ok) ==
    IF u.checked = {} THEN "Please, check at least one conflict for resolution."
    ELSE IF \E k \in DOMAIN u.choices : u.choices[k].chosen = 0
    THEN "Incomplete or incorrect mod priority list."
    ELSE IF \E j, k \in DOMAIN u.choices : j # k /\ u.choices[j].chosen = u.choices[k].chosen
    THEN "Duplicates are in the mod priority list."
    ELSE IF u.choices = <<>> THEN "IndexError"
    ELSE IF u.choices[1].chosen \notin DOMAIN idx THEN "KeyError"
    ELSE IF ~ok THEN "Cancelled by user"
    ELSE "settings"

\* __resolve_conflicts, lines 650-651: the chosen conflicts are looked up in
\* ascending order, up to the first that is not there
ChosenLookups(u, cs) ==
    {LookUp(u, cs, p) : p \in {q \in u.checked : \A o \in u.checked : o < q => o \in DOMAIN cs}}

UIFrame ==
    /\ UNCHANGED pc
    /\ UNCHANGED <<modsettings, paks>>
    /\ UNCHANGED diffVars
    /\ UNCHANGED mergeVars
    /\ UNCHANGED resolveVars
    /\ UNCHANGED buildVars
    /\ UNCHANGED runVars
    /\ UNCHANGED tlVars
    /\ UNCHANGED diff_fault
    /\ UNCHANGED timeline_loop
    /\ UNCHANGED pakVars

\* the window takes events of the user: PleaseWait is a frame of its own
\* that is shown with Show(), and the window is not disabled
TakesEvents == ui.shown /\ ~ui.closed

(***************************************************************************)
(* Specification SpecUI: the window from its construction on, the user     *)
(* pressing the buttons that are enabled, checking conflicts and choosing  *)
(* priorities in any order, the thread of the Runner running the jobs.     *)
(* The Mods directory stays as it is: every mod is listed in modsettings   *)
(* and ships d1, d2 or no dialog.  A handler is one step; the thread takes *)
(* a step per statement of a job that the handlers can observe.            *)
(***************************************************************************)
\* the first two mods ship d1, the others d2 or nothing: a conflict, with or
\* without a mod that has none
ShippedDialogs ==
    {c \in [ModUUIDs -> {<<>>, <<"d1">>, <<"d2">>}] :
        /\ c[1] = <<"d1">>
        /\ c[2] = <<"d1">>
        /\ \A i \in ModUUIDs : i > 2 => c[i] # <<"d1">>}

InitUI ==
    /\ pc = "ui"
    /\ modsettings = [i \in ModUUIDs |-> i]
    /\ \E c \in ShippedDialogs : paks = [i \in ModUUIDs |-> DialogPak(i, c[i])]
    /\ mods = <<>>
    /\ mods_index = <<>>
    /\ conflicts = <<>>
    /\ DiffIdle
    /\ mod_priority_order = <<>>
    /\ cur_dialog = ""
    /\ result_dialog = <<>>
    /\ dialog_nodes_diff = NoDiff
    /\ root_nodes_diff = NoDiff
    /\ result_timeline = <<>>
    /\ conflicting_files = NoExclusions
    /\ applied_root_entries = {}
    /\ settings = <<>>
    /\ dialog_queue = <<>>
    /\ build_files = <<>>
    /\ dialog_bank = <<>>
    /\ timeline_bank = <<>>
    /\ output_files = <<>>
    /\ report = <<>>
    /\ worklog = <<>>
    /\ run_result = NoResult
    /\ job_result = NoJobResult
    /\ diff_fault = NoFault
    /\ source_timeline = NoTimeline
    /\ destination_timeline = NoTimeline
    /\ source_timeline_diff = <<>>
    /\ already_changed_phases = {}
    /\ timeline_loop = NoLoop
    /\ ui = InitialUI
    /\ runner = InitialRunner
    /\ PAK_KEYS = <<>>
    /\ PAK_CACHE = <<>>
    /\ pak_stat = <<>>
    /\ package = <<>>

\* on_timer, lines 241-258, with __create_guidance (lines 407-423) and
\* __check_for_errors (lines 442-458)
OnTimer ==
    /\ ~ui.closed
    /\ \/ /\ ui.state = 0
          /\ ui' = [Handling(ui) EXCEPT !.splash = TRUE, !.state = 1]
          /\ runner' = run_job(runner, "init")
       \/ /\ ui.state = 1
          /\ runner.results # <<>>
          /\ LET r == Head(runner.results)
                 polled == [runner EXCEPT !.results = Tail(@)]
                 left == exit_wait_mode(Handling(ui), conflicts)
             IN IF r.error
                THEN IF left.error # ""
                     THEN ui' = left /\ runner' = polled
                     ELSE IF ~ui.g \/ ui.splash
                          THEN /\ ui' = [left EXCEPT !.splash = FALSE, !.closed = TRUE]
                               /\ runner' = [polled EXCEPT !.stopped = TRUE]
                          ELSE ui' = left /\ runner' = polled
                ELSE /\ runner' = polled
                     /\ ui' = CASE r.result = "guidance_created" ->
                                       on_guidance_created(Handling(ui), conflicts)
                                [] r.result = "scan_mods" ->
                                       on_scan_mods_done(Handling(ui), conflicts)
                                [] r.result = "guidance_done" ->
                                       on_guidance_done(Handling(ui), conflicts)
    /\ UNCHANGED <<mods, mods_index, conflicts>>
    /\ UIFrame

\* on_button for ID_BTN_SCAN, lines 277-280, with __scan_mods, lines 425-440
OnButtonScan ==
    /\ TakesEvents
    /\ ui.g
    /\ ui.scan_mods_button
    /\ runner.submitted < MaxJobs
    /\ ui' = enter_wait_mode(Handling(ui))
    /\ runner' = run_job(runner, "scan")
    /\ UNCHANGED <<mods, mods_index, conflicts>>
    /\ UIFrame

\* on_button for ID_BTN_SELECT_ALL, lines 281-293
OnButtonSelectAll ==
    /\ TakesEvents
    /\ ui.g
    /\ ui.select_all_button
    /\ ui' = EnableMergeAndPatch(
                 populate_conflict_info(
                     [Handling(ui) EXCEPT !.checked = IF ui.select_all THEN DOMAIN ui.items ELSE {},
                                          !.select_all = ~ui.select_all],
                     conflicts),
                 conflicts)
    /\ UNCHANGED runner
    /\ UNCHANGED <<mods, mods_index, conflicts>>
    /\ UIFrame

\* on_button for ID_BTN_SHOW_ALL_MODS, lines 294-308
OnButtonShowAllMods ==
    /\ TakesEvents
    /\ ui.g
    /\ ui.show_all_mods_button
    /\ LET populated == populate_conflicts([Handling(ui) EXCEPT !.show_all_mods = ~ui.show_all_mods],
                                           conflicts)
       IN ui' = EnableMergeAndPatch([populated EXCEPT !.select_all = TRUE,
                                                      !.select_all_button = Len(populated.items) > 0],
                                    conflicts)
    /\ UNCHANGED runner
    /\ UNCHANGED <<mods, mods_index, conflicts>>
    /\ UIFrame

\* on_button for ID_BTN_MERGE and ID_BTN_PATCH, lines 309-316, with
\* __resolve_conflicts, lines 638-666
OnButtonResolve ==
    /\ TakesEvents
    /\ ui.g
    /\ runner.submitted < MaxJobs
    /\ \E method \in {"MERGE", "PATCH"}, ok \in BOOLEAN :
          /\ IF method = "MERGE" THEN ui.merge_button ELSE ui.patch_button
          /\ LET made == create_settings(ui, mods_index, ok)
                 looked == [Handling(ui) EXCEPT !.lookups = ChosenLookups(ui, conflicts)]
             IN IF made \in {"IndexError", "KeyError"}
                THEN ui' = [Handling(ui) EXCEPT !.error = made] /\ UNCHANGED runner
                ELSE IF made # "settings"
                THEN ui' = Handling(ui) /\ UNCHANGED runner
                ELSE IF \E p \in ui.checked : p \notin DOMAIN conflicts
                THEN ui' = [looked EXCEPT !.error = "IndexError"] /\ UNCHANGED runner
                ELSE /\ ui' = enter_wait_mode(looked)
                     /\ runner' = run_job(runner, "resolve")
    /\ UNCHANGED <<mods, mods_index, conflicts>>
    /\ UIFrame

\* on_checklistbox, lines 343-353: the user clicks an item, which selects it
\* and toggles its check
OnCheckListBox ==
    /\ TakesEvents
    /\ ui.g
    /\ \E i \in DOMAIN ui.items :
          ui' = EnableMergeAndPatch(
                    populate_conflict_info(
                        [Handling(ui) EXCEPT !.checked = IF i \in @ THEN @ \ {i} ELSE @ \cup {i},
                                             !.selection = i],
                        conflicts),
                    conflicts)
    /\ UNCHANGED runner
    /\ UNCHANGED <<mods, mods_index, conflicts>>
    /\ UIFrame

\* on_choice, lines 355-369: the user chooses a mod in one of the priority
\* choices, the k-th mod for the k-th priority
OnChoice ==
    /\ TakesEvents
    /\ ui.g
    /\ \E k \in DOMAIN ui.choices :
          /\ ui.choices[k].chosen = 0
          /\ LET chosen == [Handling(ui) EXCEPT !.choices[k].chosen = ui.choices[k].mod]
             IN ui' = IF ui.selection = 0 THEN chosen
                      ELSE [chosen EXCEPT !.lookups = {LookUp(ui, conflicts, ui.selection)},
                                          !.error = IF ui.selection \in DOMAIN conflicts
                                                    THEN "" ELSE "IndexError"]
    /\ UNCHANGED runner
    /\ UNCHANGED <<mods, mods_index, conflicts>>
    /\ UIFrame

\* Runner.__thread_proc, lines 45-50: the thread takes the next job
ThreadGet ==
    /\ runner.current = NoJob
    /\ runner.jobs # <<>>
    /\ runner' = [runner EXCEPT !.current = Head(runner.jobs), !.jobs = Tail(@),
                                !.at = CASE Head(runner.jobs).kind = "init" -> "guidance"
                                         [] Head(runner.jobs).kind = "scan" -> "reload_mods"
                                         [] Head(runner.jobs).kind = "resolve" -> "resolve_conflicts"]
    /\ UNCHANGED ui
    /\ UNCHANGED <<mods, mods_index, conflicts>>
    /\ UIFrame

\* __create_guidance, line 410: self.__g = guidance(self.__config)
JobGuidance ==
    /\ runner.at = "guidance"
    /\ ui' = [ui EXCEPT !.g = TRUE]
    /\ runner' = [runner EXCEPT !.at = "reload_mods"]
    /\ UNCHANGED <<mods, mods_index, conflicts>>
    /\ UIFrame

\* reload_mods, lines 229-234: the lists and the index are emptied
JobReloadReset ==
    /\ runner.at = "reload_mods"
    /\ mods' = <<>>
    /\ mods_index' = <<>>
    /\ conflicts' = <<>>
    /\ runner' = [runner EXCEPT !.at = "load"]
    /\ UNCHANGED ui
    /\ UIFrame

\* reload_mods, lines 235-247: modsettings.lsx and the paks are loaded
JobReloadLoad ==
    /\ runner.at = "load"
    /\ LET st == reload_mods(modsettings, paks)
       IN /\ mods' = st.mods
          /\ mods_index' = st.index
    /\ runner' = [runner EXCEPT !.at = "detect_conflicts"]
    /\ UNCHANGED conflicts
    /\ UNCHANGED ui
    /\ UIFrame

\* detect_conflicts, lines 249-305, called by the job
JobDetectConflicts ==
    /\ runner.at = "detect_conflicts"
    /\ conflicts' = detect_conflicts(mods, mods_index)
    /\ runner' = [runner EXCEPT !.at = "return"]
    /\ UNCHANGED <<mods, mods_index>>
    /\ UNCHANGED ui
    /\ UIFrame

\* mod_manager.resolve_conflicts called by the job of __resolve_conflicts,
\* line 663; what it does to the mods is the matter of SpecInstall
JobResolveConflicts ==
    /\ runner.at = "resolve_conflicts"
    /\ runner' = [runner EXCEPT !.at = "return"]
    /\ UNCHANGED ui
    /\ UNCHANGED <<mods, mods_index, conflicts>>
    /\ UIFrame

\* the messages of a job that returns: __create_guidance lines 420-421,
\* __scan_mods lines 436-437, __resolve_conflicts line 664
MessagesOf(job) ==
    CASE job.kind = "init" -> <<Message("guidance_created"), Message("scan_mods")>>
      [] job.kind = "scan" -> <<Message("scan_mods")>>
      [] job.kind = "resolve" -> <<Message("guidance_done")>>

\* the job returns; Runner.__thread_proc, line 52
JobReturn ==
    /\ runner.at = "return"
    /\ runner' = [thread_proc_put(runner, runner.current, "return", MessagesOf(runner.current))
                     EXCEPT !.current = NoJob, !.at = "get"]
    /\ UNCHANGED ui
    /\ UNCHANGED <<mods, mods_index, conflicts>>
    /\ UIFrame

\* a call of the job raises; Runner.__thread_proc, lines 53-56
JobRaise ==
    /\ runner.at \in {"guidance", "reload_mods", "load", "detect_conflicts", "resolve_conflicts"}
    /\ runner' = [thread_proc_put(runner, runner.current, "raise", <<>>)
                     EXCEPT !.current = NoJob, !.at = "get"]
    /\ UNCHANGED ui
    /\ UNCHANGED <<mods, mods_index, conflicts>>
    /\ UIFrame

NextUI ==
    \/ OnTimer
    \/ OnButtonScan
    \/ OnButtonSelectAll
    \/ OnButtonShowAllMods
    \/ OnButtonResolve
    \/ OnCheckListBox
    \/ OnChoice
    \/ ThreadGet
    \/ JobGuidance
    \/ JobReloadReset
    \/ JobReloadLoad
    \/ JobDetectConflicts
    \/ JobResolveConflicts
    \/ JobReturn
    \/ JobRaise

SpecUI == InitUI /\ [][NextUI]_vars

\* the jobs submitted with run_job whose message the thread has not put yet
InFlight == Len(runner.jobs) + (IF runner.current = NoJob THEN 0 ELSE 1)

(***************************************************************************)
(* C21  At most one job in flight: the window never calls run_job while a  *)
(* job submitted earlier is still queued or running, so that the thread    *)
(* of the Runner has at most one job to work on at any time.               *)
(***************************************************************************)
C21_AtMostOneJobInFlight == InFlight <= 1

(***************************************************************************)
(* C22  Messages per job: a scan job and a resolve job put exactly one     *)
(* message on the results queue, the value the job returned or the error   *)
(* it raised; the initialisation job puts one message when it raises and   *)
(* two when it returns, 'guidance_created' and then the value it returns.  *)
(***************************************************************************)
C22_MessagesPerJob ==
    runner.put # NoPut =>
        runner.put.n = IF runner.put.kind = "init" /\ ~runner.put.raised THEN 2 ELSE 1

\* the initialisation job has returned, and two messages were put for it
C22_Witness == runner.put.kind = "init" /\ ~runner.put.raised /\ runner.put.n = 2

\* exactly one message is put for every job, the initialisation included
C22_OneMessagePerJob == runner.put # NoPut => runner.put.n = 1

(***************************************************************************)
(* C28  Check list positions denote conflicts: whenever a handler indexes  *)
(* conflicts with a position of the check list (__can_patch, on_choice,    *)
(* __resolve_conflicts), the index is in range and the conflict found is   *)
(* the one whose name the list shows at the position, in both list modes   *)
(* and whatever the thread of the Runner is doing.                         *)
(***************************************************************************)
C28_PositionsDenoteDisplayedConflicts == ui.lookups \subseteq {"displayed"}

====
